---------------------------- MODULE Spec2Model ----------------------------
(***************************************************************************)
(* Model of tdewolff/push: the streaming pipeline (a pipe plus a tee that  *)
(* duplicates the response body into a scanner), the recursive scan tree   *)
(* with its completion barrier, the push handler and the URI cache.        *)
(*                                                                         *)
(* The repository holds several generations of the same package.  The     *)
(* variable `variant' selects the generation a behaviour runs:             *)
(*   "func"   ResponseWriter(w, r, baseURL, opener, cache)  part_005:76    *)
(*   "P"      P.ResponseWriter + Writer                     part_005:216   *)
(*   "piped"  Parser.ResponseWriter + Push + ParseAll       push.go:40     *)
(*   "legacy" Push.ResponseWriter, non-recursive            part_000:69    *)
(*                                                                         *)
(* A document is a sequence of tokens.  A token is "x" (markup that holds  *)
(* no reference), a URI (a construct whose reference resolves to that      *)
(* local path) or "bad" (a reference url.Parse rejects).                   *)
(***************************************************************************)
EXTENDS Integers, Sequences, FiniteSets, TLC

\* ------------------------------------------------------------ bounds
MaxRequests == 2    \* requests handled one after the other
MaxWrites == 2      \* Write calls of a behaviour
MaxChunk == 2       \* tokens of one Write
MaxRefs == 1        \* references in the response bodies of a behaviour

\* ------------------------------------------------------------ values
Variants == {"func", "P", "piped", "legacy"}
ReqURIs == {"/index.html", "/logo.png"}
CTypes == {"", "image/png"}
ResURIs == {"/a.css", "/b.svg"}
RootTokens == {"x", "/a.css", "bad"}
OpenOutcomes == {"err", "nomime", "ok"}
NoEntry == <<"-">>
AllURIs == ReqURIs \cup ResURIs
NoReq == [uri |-> "/index.html", ctype |-> "", xpushed |-> "",
          hasPusher |-> FALSE, origin |-> "none"]

ErrNoPusher == "ErrNoPusher"
ErrRecursivePush == "ErrRecursivePush"
ErrNoParser == "ErrNoParser"

\* uriChan := make(chan string, 5)
ChanCap == 5

\* path.Ext on the URIs of the model
PathExt(uri) ==
    CASE uri = "/index.html" -> ".html"
      [] uri = "/logo.png" -> ".png"
      [] uri = "/a.css" -> ".css"
      [] uri = "/b.svg" -> ".svg"
      [] OTHER -> ""

\* ExtToMimetype[ext]; "" is the zero value of a missing key
ExtToMimetype(ext) ==
    CASE ext = "" -> "text/html"
      [] ext = ".html" -> "text/html"
      [] ext = ".css" -> "text/css"
      [] ext = ".svg" -> "image/svg+xml"
      [] OTHER -> ""

\* mime.ParseMediaType of the Content-Type values of the model; ";" has no
\* media type
ParseMediaType(mediatype) ==
    [mimetype |-> CASE mediatype = ";" -> ""
                    [] mediatype = "text/css; charset=utf-8" -> "text/css"
                    [] OTHER -> mediatype,
     err |-> mediatype = ";"]

SupportedMimetype(m) == m \in {"text/html", "text/css", "image/svg+xml"}

\* what the opener serves for a URI (the resources map of the tests)
Content(uri) ==
    CASE uri = "/a.css" -> <<"/b.svg", "bad">>
      [] uri = "/b.svg" -> <<"x">>
      [] OTHER -> <<>>

\* sequences of 1..n tokens over S
Chunks(S, n) == UNION {[1..k -> S] : k \in 1..n}

RECURSIVE CountRefs(_)
CountRefs(s) ==
    IF s = <<>> THEN 0
    ELSE (IF Head(s) \in ResURIs THEN 1 ELSE 0) + CountRefs(Tail(s))

\* ------------------------------------------------------------ state
VARIABLES
    variant,    \* generation of the package
    useCache,   \* cache != nil
    recursive,  \* opener != nil / dir != ""
    cache,      \* DefaultCache.uris
    nreq,       \* requests started
    promised,   \* requests created by pushes: {[uri, xpushed]}
    req,        \* the request being handled
    hpc,        \* handler: idle, setup, serve, writing, closing, done
    setupErr,   \* error ResponseWriter returned
    wmode,      \* writer handed to the handler: none, nop, pipe, lazy, raw, error
    nWrites,    \* Write calls made, over all requests
    nRefs,      \* references written, over all requests
    written,    \* tokens passed to Write so far
    writeErrs,  \* errors returned by Write
    closeRes,   \* value returned by Close ("none" before it returns)
    down,       \* tokens the downstream ResponseWriter received
    pending,    \* pipe: data of the blocked Write not yet read
    wclosed,    \* pipe: pw.Close() was called
    rclosed,    \* pipe: "open", "closed" (pr.Close) or the CloseWithError error
    teeBuf,     \* TeeReader: read from the pipe, not yet written downstream
    gpc,        \* pipeline goroutine: none, parse, push, drain, finished
    werr,       \* the writer's err field
    tasks,      \* scan tasks; tasks[1] is the root
    uriChan,    \* piped: buffered channel of accepted URIs
    chanErr,    \* piped: first push error kept by Push
    replayed,   \* URIs ResponseWriter pushed from the cache, in order
    pushed,     \* push attempts made for scanned URIs: URI -> count
    pushHdrs,   \* X-Pushed values of the options of all push calls
    accepted,   \* sink calls of the scan tree: URI -> count
    lookup,     \* scanner: Lookup{host, baseURI} of the parser
    reqURL,     \* scanner: Parser.reqURL, the address of the document
    tag,        \* scanner: var tag of parseHTML, the last start tag
    lexTok,     \* scanner: the token the lexer returned last
    ntok,       \* scanner: tokens the lexer has returned
    stream,     \* scanner: raw references of the tokens so far, in byte order
                \* (ResolveSpec, CssSpec: the strings parseURL was called with)
    uris,       \* scanner: ListHandler.URIs, the sink calls in call order
    scanErr,    \* scanner: "none" while parsing, then what Parse returned
    listDoc,    \* list: the document List is called with
    firstURIs,  \* list: what the first call of List returned
    mutex,      \* list: the tasks inside the sink's critical section, each
                \* with the value it read
    cacheLog,   \* cache: the calls made on the DefaultCache, with what Get
                \* returned
    conns,      \* serve: the requests handled at the same time
    mime,       \* mimetype: a request, its Content-Type headers and the
                \* mimetype its scanner was selected with
    rd          \* reader: the source, what the consumer has read, how pw
                \* was closed and what the consumer's last Read reported

vars == <<variant, useCache, recursive, cache, nreq, promised, req, hpc,
          setupErr, wmode, nWrites, nRefs, written, writeErrs, closeRes, down,
          pending, wclosed, rclosed, teeBuf, gpc, werr, tasks, uriChan,
          chanErr, replayed, pushed, pushHdrs, accepted, lookup, reqURL, tag,
          lexTok, ntok, stream, uris, scanErr, listDoc, firstURIs, mutex,
          cacheLog, conns, mime, rd>>

moreVars == <<cacheLog, conns, mime, rd>>
extVars == <<listDoc, firstURIs, mutex, moreVars>>
scanVars == <<lookup, reqURL, tag, lexTok, ntok, stream, uris, scanErr>>
cfgVars == <<variant, useCache, recursive>>
budgetVars == <<nWrites, nRefs>>
pipeVars == <<pending, wclosed, rclosed, teeBuf>>

\* the configurations explored: piped and legacy have no cache; the legacy
\* generation is run with dir == "" (non-recursive)
Configs ==
    {c \in [variant : Variants, useCache : BOOLEAN, recursive : BOOLEAN] :
        /\ c.variant \in {"piped", "legacy"} => ~c.useCache
        /\ c.variant = "legacy" => ~c.recursive
        /\ c.variant = "P" => ~c.recursive}

\* no request has been handled yet
IdlePipeline ==
    /\ cache = [k \in AllURIs |-> NoEntry]
    /\ nreq = 0
    /\ promised = {}
    /\ req = NoReq
    /\ hpc = "idle"
    /\ setupErr = "nil"
    /\ wmode = "none"
    /\ nWrites = 0
    /\ nRefs = 0
    /\ written = <<>>
    /\ writeErrs = {}
    /\ closeRes = "none"
    /\ down = <<>>
    /\ pending = <<>>
    /\ wclosed = FALSE
    /\ rclosed = "open"
    /\ teeBuf = <<>>
    /\ gpc = "none"
    /\ werr = "nil"
    /\ tasks = <<>>
    /\ uriChan = <<>>
    /\ chanErr = "nil"
    /\ replayed = <<>>
    /\ pushed = [u \in AllURIs |-> 0]
    /\ pushHdrs = {}
    /\ accepted = [u \in AllURIs |-> 0]

\* no parser has been created
IdleScanner ==
    /\ lookup = [host |-> "", baseURI |-> ""]
    /\ reqURL = [host |-> "", path |-> <<>>]
    /\ tag = ""
    /\ lexTok = [kind |-> "none"]
    /\ ntok = 0
    /\ stream = <<>>
    /\ uris = <<>>
    /\ scanErr = "none"

NoMime == [uri |-> "", request |-> "", response |-> "", selected |-> "none"]

NoReader == [src |-> <<>>, read |-> <<>>, closed |-> "open", res |-> "none"]

\* no list is being built
IdleExt ==
    /\ listDoc = <<>>
    /\ firstURIs = <<>>
    /\ mutex = <<>>
    /\ cacheLog = <<>>
    /\ conns = <<>>
    /\ mime = NoMime
    /\ rd = NoReader

Init ==
    /\ \E c \in Configs :
        /\ variant = c.variant
        /\ useCache = c.useCache
        /\ recursive = c.recursive
    /\ IdlePipeline
    /\ IdleScanner
    /\ IdleExt

\* ------------------------------------------------------------ DefaultCache
CacheGet(c, uri) ==
    [resources |-> IF c[uri] = NoEntry THEN <<>> ELSE c[uri],
     ok |-> c[uri] # NoEntry]

\* mutant: Add that keeps only the last resource of a key
CacheAddOverwrite(c, uri, resource) == [c EXCEPT ![uri] = <<resource>>]

CacheAdd(c, uri, resource) ==
    [c EXCEPT ![uri] = IF c[uri] = NoEntry THEN <<resource>>
                       ELSE Append(c[uri], resource)]

CacheDel(c, uri) == [c EXCEPT ![uri] = NoEntry]

\* ------------------------------------------------------------ push handler
\* mutant: push options without the marker
PushOptionsUnmarked == [XPushed |-> ""]

\* opts.Header.Set("X-Pushed", "1")
PushOptions == [XPushed |-> "1"]

\* opts := &http.PushOptions{Header: http.Header{"X-Pushed": {"1"}}}
PipedOptions == [XPushed |-> "1"]

LegacyOptions == [XPushed |-> "1"]

NewPushHandlerFromResponseWriter(hasPusher) ==
    IF hasPusher THEN [err |-> "nil", opts |-> PushOptions]
    ELSE [err |-> ErrNoPusher, opts |-> PushOptions]

Opts ==
    CASE variant \in {"func", "P"} -> PushOptions
      [] variant = "piped" -> PipedOptions
      [] OTHER -> LegacyOptions

\* pusher.Push(uri, opts): one attempt; when the channel takes it (ok) the
\* connection carries a request for uri whose header is that of opts
PusherPush(u, ok) ==
    /\ pushed' = [pushed EXCEPT ![u] = @ + 1]
    /\ pushHdrs' = pushHdrs \cup {Opts.XPushed}
    /\ promised' = IF ok THEN promised \cup {[uri |-> u, xpushed |-> Opts.XPushed]}
                   ELSE promised

\* the replay loop of a cache hit when the push of entry k+1 is the first to
\* fail (k = Len: none fails): the attempts made and the error returned
Replay(resources, k) ==
    [attempts |-> SubSeq(resources, 1, IF k < Len(resources) THEN k + 1 ELSE k),
     nok |-> k,
     err |-> IF k < Len(resources) THEN "ErrPush" ELSE "nil"]

\* ------------------------------------------------------------ requests
Requests ==
    [uri : ReqURIs,
     ctype : IF variant \in {"func", "P"} THEN CTypes ELSE {""},
     xpushed : {"", "1"},
     hasPusher : BOOLEAN,
     origin : {"client"}]
    \cup {[uri |-> p.uri, ctype |-> "", xpushed |-> p.xpushed,
           hasPusher |-> TRUE, origin |-> "push"] : p \in promised}

\* the server hands a request to the handler
Request ==
    /\ hpc \in {"idle", "done"}
    /\ nreq < MaxRequests
    /\ \E r \in Requests : req' = r
    /\ nreq' = nreq + 1
    /\ hpc' = "setup"
    /\ setupErr' = "nil"
    /\ wmode' = "none"
    /\ written' = <<>>
    /\ writeErrs' = {}
    /\ closeRes' = "none"
    /\ down' = <<>>
    /\ pending' = <<>>
    /\ wclosed' = FALSE
    /\ rclosed' = "open"
    /\ teeBuf' = <<>>
    /\ gpc' = "none"
    /\ werr' = "nil"
    /\ tasks' = <<>>
    /\ uriChan' = <<>>
    /\ chanErr' = "nil"
    /\ replayed' = <<>>
    /\ pushed' = [u \in AllURIs |-> 0]
    /\ pushHdrs' = {}
    /\ accepted' = [u \in AllURIs |-> 0]
    /\ UNCHANGED <<extVars, scanVars, cfgVars, budgetVars, cache, promised>>

\* Middleware (func), P.Middleware, and the handler of example/main.go: the
\* writer the wrapped handler is served with, given what ResponseWriter
\* returned.  "raw": the original w, never closed; "error": http.Error.
Middleware(err, ret) ==
    CASE variant = "func" ->
            IF err = "nil" THEN ret
            ELSE IF err \in {ErrNoParser, ErrRecursivePush} THEN "raw"
            ELSE "error"
      [] variant = "P" -> ret
      [] OTHER -> IF err = "nil" THEN ret ELSE "raw"

\* ResponseWriter returns without starting a pipeline
Return(err, ret, c, rep) ==
    /\ setupErr' = err
    /\ wmode' = Middleware(err, ret)
    /\ hpc' = IF Middleware(err, ret) = "error" THEN "done" ELSE "serve"
    /\ down' = IF Middleware(err, ret) = "error" THEN <<"E500">> ELSE down
    /\ cache' = c
    /\ replayed' = rep.attempts
    /\ pushHdrs' = IF rep.attempts = <<>> THEN pushHdrs
                   ELSE pushHdrs \cup {Opts.XPushed}
    /\ promised' = promised \cup
          {[uri |-> rep.attempts[i], xpushed |-> Opts.XPushed] : i \in 1..rep.nok}
    /\ UNCHANGED <<extVars, scanVars, cfgVars, nreq, req, budgetVars, written, writeErrs, closeRes,
                   pipeVars, gpc, werr, tasks, uriChan, chanErr, pushed,
                   accepted>>

NoReplay == Replay(<<>>, 0)

\* the root scan task of a pipeline; Parse returns ErrNoParser at once for a
\* mimetype it has no scanner for
RootTask(uri, supported) ==
    [parent |-> 0, uri |-> uri, buf |-> <<>>, wg |-> 0,
     pc |-> IF supported THEN "scan" ELSE "wait",
     err |-> IF supported THEN "nil" ELSE ErrNoParser]

\* pr, pw := io.Pipe(); wg.Add(1); go func() {...}()
StartPipeline(c, root) ==
    /\ setupErr' = "nil"
    /\ wmode' = "pipe"
    /\ hpc' = "serve"
    /\ cache' = c
    /\ gpc' = "parse"
    /\ tasks' = <<root>>
    /\ UNCHANGED <<extVars, scanVars, cfgVars, nreq, promised, req, budgetVars, written, writeErrs,
                   closeRes, down, pipeVars, werr, uriChan, chanErr, replayed,
                   pushed, pushHdrs, accepted>>

\* ResponseWriter: the mimetype of the gate, from the Content-Type header of
\* the request r, else from the extension of r.RequestURI
GateMimetype(mediatype, uri) ==
    IF mediatype # "" THEN ParseMediaType(mediatype).mimetype
    ELSE ExtToMimetype(PathExt(uri))

\* ResponseWriter(w, r, baseURL, opener, cache)
ResponseWriterFunc ==
    /\ hpc = "setup"
    /\ variant = "func"
    /\ LET ph == NewPushHandlerFromResponseWriter(req.hasPusher)
           got == CacheGet(cache, req.uri)
           missed == IF useCache THEN CacheDel(cache, req.uri) ELSE cache
           mimetype == GateMimetype(req.ctype, req.uri)
       IN  IF req.xpushed = "1" THEN Return(ErrRecursivePush, "nop", cache, NoReplay)
           ELSE IF ph.err # "nil" THEN Return(ph.err, "nop", cache, NoReplay)
           ELSE IF useCache /\ got.ok THEN
               \E k \in 0..Len(got.resources) :
                   Return(Replay(got.resources, k).err, "nop", cache,
                          Replay(got.resources, k))
           ELSE IF ~SupportedMimetype(mimetype) THEN
               Return(ErrNoParser, "nop", missed, NoReplay)
           ELSE StartPipeline(missed, RootTask(req.uri, TRUE))

\* (p *P) ResponseWriter(w, r): the pipeline is created by the first Write
ResponseWriterP ==
    /\ hpc = "setup"
    /\ variant = "P"
    /\ LET ph == NewPushHandlerFromResponseWriter(req.hasPusher)
           got == CacheGet(cache, req.uri)
           missed == IF useCache THEN CacheDel(cache, req.uri) ELSE cache
       IN  IF req.xpushed = "1" THEN Return(ErrRecursivePush, "nop", cache, NoReplay)
           ELSE IF ph.err # "nil" THEN Return(ph.err, "nop", cache, NoReplay)
           ELSE IF useCache /\ got.ok THEN
               \E k \in 0..Len(got.resources) :
                   Return(Replay(got.resources, k).err, "nop", cache,
                          Replay(got.resources, k))
           ELSE Return("nil", "lazy", missed, NoReplay)

\* (p *Parser) ResponseWriter(w, r)
ResponseWriterPiped ==
    /\ hpc = "setup"
    /\ variant = "piped"
    /\ IF ~req.hasPusher THEN Return(ErrNoPusher, "nop", cache, NoReplay)
       ELSE IF req.xpushed = "1" THEN Return(ErrRecursivePush, "nop", cache, NoReplay)
       ELSE IF ExtToMimetype(PathExt(req.uri)) = "" THEN
           Return(ErrNoParser, "nop", cache, NoReplay)
       ELSE StartPipeline(cache, RootTask(req.uri, TRUE))

\* mime.TypeByExtension + mime.ParseMediaType on the URIs of the model
TypeByExtension(ext) ==
    CASE ext = ".html" -> "text/html"
      [] ext = ".css" -> "text/css"
      [] ext = ".svg" -> "image/svg+xml"
      [] ext = ".png" -> "image/png"
      [] OTHER -> ""

\* (p *Push) ResponseWriter(w, r); Push.Parse scans text/html and text/css
ResponseWriterLegacy ==
    /\ hpc = "setup"
    /\ variant = "legacy"
    /\ LET mimetype == IF PathExt(req.uri) = "" THEN "text/html"
                       ELSE TypeByExtension(PathExt(req.uri))
       IN  IF ~req.hasPusher THEN Return(ErrNoPusher, "nop", cache, NoReplay)
           ELSE IF req.xpushed = "1" THEN Return(ErrRecursivePush, "nop", cache, NoReplay)
           ELSE StartPipeline(cache, RootTask(req.uri, mimetype \in {"text/html", "text/css"}))

\* ------------------------------------------------------------ the writer
\* pushingResponseWriter.Write, first write: the mimetype the Writer is
\* created with, given the Content-Type header of the response and the
\* RequestURI; the header replaces the mimetype of the extension when
\* ParseMediaType returns an error
WriterMimetype(mediatype, uri) ==
    IF mediatype # "" /\ ParseMediaType(mediatype).err
    THEN ParseMediaType(mediatype).mimetype
    ELSE ExtToMimetype(PathExt(uri))

FirstWriteMimetype == WriterMimetype(req.ctype, req.uri)

\* the wrapped handler calls Write(chunk) on the writer it was served with
Write ==
    /\ hpc = "serve"
    /\ nWrites < MaxWrites
    /\ \E chunk \in Chunks(RootTokens, MaxChunk) :
        /\ nRefs + CountRefs(chunk) <= MaxRefs
        /\ written' = written \o chunk
        /\ nWrites' = nWrites + 1
        /\ nRefs' = nRefs + CountRefs(chunk)
        /\ CASE wmode = "pipe" ->
                  /\ pending' = chunk
                  /\ hpc' = "writing"
                  /\ UNCHANGED <<down, wmode, gpc, tasks>>
             [] wmode = "lazy" ->
                  /\ pending' = chunk
                  /\ hpc' = "writing"
                  /\ wmode' = "pipe"
                  /\ gpc' = "parse"
                  /\ tasks' = <<RootTask(req.uri, SupportedMimetype(FirstWriteMimetype))>>
                  /\ UNCHANGED down
             [] OTHER ->
                  /\ down' = down \o chunk
                  /\ UNCHANGED <<pending, hpc, wmode, gpc, tasks>>
    /\ UNCHANGED <<extVars, scanVars, cfgVars, cache, nreq, promised, req, setupErr, writeErrs,
                   closeRes, wclosed, rclosed, teeBuf, werr, uriChan, chanErr,
                   replayed, pushed, pushHdrs, accepted>>

\* pw.Write returns: all of b was read, or the read side was closed
WriteReturn ==
    /\ hpc = "writing"
    /\ \/ /\ pending = <<>>
          /\ writeErrs' = writeErrs \cup {"nil"}
          /\ UNCHANGED pending
       \/ /\ pending # <<>>
          /\ rclosed # "open"
          /\ writeErrs' = writeErrs \cup
                {IF rclosed = "closed" THEN "ErrClosedPipe" ELSE rclosed}
          /\ pending' = <<>>
    /\ hpc' = "serve"
    /\ UNCHANGED <<extVars, scanVars, cfgVars, cache, nreq, promised, req, setupErr, wmode,
                   budgetVars, written, closeRes, down, wclosed, rclosed, teeBuf,
                   gpc, werr, tasks, uriChan, chanErr, replayed, pushed,
                   pushHdrs, accepted>>

\* Close is called: pw.Close(), then wg.Wait(); the nop writers and a
\* pushingResponseWriter that was never written to return nil at once.
\* A handler served with the original w ("raw") ends without Close.
Close ==
    /\ hpc = "serve"
    /\ CASE wmode = "pipe" ->
              /\ wclosed' = TRUE
              /\ hpc' = "closing"
              /\ UNCHANGED closeRes
         [] wmode = "raw" ->
              /\ hpc' = "done"
              /\ UNCHANGED <<wclosed, closeRes>>
         [] OTHER ->
              /\ hpc' = "done"
              /\ closeRes' = "nil"
              /\ UNCHANGED wclosed
    /\ UNCHANGED <<extVars, scanVars, cfgVars, cache, nreq, promised, req, setupErr, wmode,
                   budgetVars, written, writeErrs, down, pending, rclosed, teeBuf,
                   gpc, werr, tasks, uriChan, chanErr, replayed, pushed,
                   pushHdrs, accepted>>

\* what Close returns once wg.Wait() is over: w.err; the legacy Close returns
\* the result of pw.Close(), which is nil
CloseResult == IF variant = "legacy" THEN "nil" ELSE werr

\* mutant: Close that does not wait for the pipeline goroutine
WaitGroupNoWait == TRUE

\* wg.Wait() of Close
WaitGroupDone == gpc = "finished"

CloseReturn ==
    /\ hpc = "closing"
    /\ WaitGroupDone
    /\ closeRes' = CloseResult
    /\ hpc' = "done"
    /\ UNCHANGED <<extVars, scanVars, cfgVars, cache, nreq, promised, req, setupErr, wmode,
                   budgetVars, written, writeErrs, down, pipeVars, gpc, werr,
                   tasks, uriChan, chanErr, replayed, pushed, pushHdrs,
                   accepted>>

\* ------------------------------------------------------------ pipe and tee
\* the goroutine that reads tr is the root scanner while it scans, and the
\* pipeline goroutine while it drains
RootScanning == gpc = "parse" /\ tasks[1].pc = "scan"

\* mutant: after a scan error nothing reads the pipe any more
PipeReadNoDrain ==
    /\ RootScanning /\ tasks[1].buf = <<>>
    /\ teeBuf = <<>>
    /\ pending # <<>>
    /\ rclosed = "open"
    /\ \E k \in 1..Len(pending) :
        /\ teeBuf' = SubSeq(pending, 1, k)
        /\ pending' = SubSeq(pending, k + 1, Len(pending))
    /\ UNCHANGED <<extVars, scanVars, cfgVars, cache, nreq, promised, req, hpc, setupErr, wmode,
                   budgetVars, written, writeErrs, closeRes, down, wclosed,
                   rclosed, gpc, werr, tasks, uriChan, chanErr, replayed,
                   pushed, pushHdrs, accepted>>

\* pr.Read inside TeeReader.Read: takes part or all of the blocked Write
PipeRead ==
    /\ \/ RootScanning /\ tasks[1].buf = <<>>
       \/ gpc = "drain"
    /\ teeBuf = <<>>
    /\ pending # <<>>
    /\ rclosed = "open"
    /\ \E k \in 1..Len(pending) :
        /\ teeBuf' = SubSeq(pending, 1, k)
        /\ pending' = SubSeq(pending, k + 1, Len(pending))
    /\ UNCHANGED <<extVars, scanVars, cfgVars, cache, nreq, promised, req, hpc, setupErr, wmode,
                   budgetVars, written, writeErrs, closeRes, down, wclosed,
                   rclosed, gpc, werr, tasks, uriChan, chanErr, replayed,
                   pushed, pushHdrs, accepted>>

\* mutant: the drain loop reads the pipe itself, not the tee
TeeWriteDrainBypass ==
    /\ teeBuf # <<>>
    /\ down' = IF gpc = "drain" THEN down ELSE down \o teeBuf
    /\ teeBuf' = <<>>
    /\ tasks' = IF gpc = "drain" THEN tasks
                ELSE [tasks EXCEPT ![1].buf = teeBuf]
    /\ UNCHANGED <<extVars, scanVars, cfgVars, cache, nreq, promised, req, hpc, setupErr, wmode,
                   budgetVars, written, writeErrs, closeRes, pending, wclosed,
                   rclosed, gpc, werr, uriChan, chanErr, replayed, pushed,
                   pushHdrs, accepted>>

\* TeeReader.Read writes what it read to w and hands it to its caller: the
\* lexer of the root scan, or the drain loop, which drops it
TeeWrite ==
    /\ teeBuf # <<>>
    /\ down' = down \o teeBuf
    /\ teeBuf' = <<>>
    /\ tasks' = IF gpc = "drain" THEN tasks
                ELSE [tasks EXCEPT ![1].buf = teeBuf]
    /\ UNCHANGED <<extVars, scanVars, cfgVars, cache, nreq, promised, req, hpc, setupErr, wmode,
                   budgetVars, written, writeErrs, closeRes, pending, wclosed,
                   rclosed, gpc, werr, uriChan, chanErr, replayed, pushed,
                   pushHdrs, accepted>>

\* pr.Read returns io.EOF: the write side was closed and nothing is left
PipeEOF == pending = <<>> /\ teeBuf = <<>> /\ wclosed

\* ------------------------------------------------------------ scan tasks
Tasks == 1..Len(tasks)

\* the WaitGroup a task's children are counted in: Parser.wg of the task's
\* own parser, or the one WaitGroup of ParseAll
Barrier(t) == IF variant = "piped" THEN 1 ELSE t

ChildTask(t, u) ==
    [parent |-> t, uri |-> u, buf |-> <<>>, wg |-> 0, pc |-> "open",
     err |-> "nil"]

\* mutant: parseURL with a visited set, spawning no task for a URI that
\* already has one
SpawnOnce(t) ==
    LET u == Head(tasks[t].buf)
        ts == [tasks EXCEPT ![t].buf = Tail(@), ![t].pc = "scan"]
    IN  IF recursive /\ \A c \in Tasks : tasks[c].uri # u
        THEN Append([ts EXCEPT ![Barrier(t)].wg = @ + 1], ChildTask(t, u))
        ELSE ts

\* mutant: parseURL that opens and scans the resource itself before it
\* returns to the scanner
SpawnJoining(t) ==
    LET u == Head(tasks[t].buf)
        ts == [tasks EXCEPT ![t].buf = Tail(@), ![t].pc = "scan"]
    IN  IF recursive
        THEN Append([ts EXCEPT ![Barrier(t)].wg = @ + 1, ![t].pc = "join"],
                    ChildTask(t, u))
        ELSE ts

\* parseURL after the sink call for the reference at the head of the buffer:
\* when recursive, wg.Add(1) and go func() {...}(); the scan goes on
Spawn(t) ==
    LET u == Head(tasks[t].buf)
        ts == [tasks EXCEPT ![t].buf = Tail(@), ![t].pc = "scan"]
    IN  IF recursive
        THEN Append([ts EXCEPT ![Barrier(t)].wg = @ + 1], ChildTask(t, u))
        ELSE ts

\* mutant: a scan that fails cancels the children that have not been opened
ScanReturnsCancelling(t, err) ==
    [c \in Tasks |->
        IF c = t THEN [tasks[c] EXCEPT !.pc = "wait", !.err = err, !.buf = <<>>]
        ELSE IF err # "nil" /\ tasks[c].parent = t /\ tasks[c].pc = "open"
        THEN [tasks[c] EXCEPT !.pc = "wait", !.err = "cancelled"]
        ELSE tasks[c]]

\* the scan of task t returns err (nil at io.EOF)
ScanReturns(t, err) ==
    [tasks EXCEPT ![t].pc = "wait", ![t].err = err, ![t].buf = <<>>]

\* the scanner of task t handles its next token
ScanToken(t) ==
    /\ tasks[t].pc = "scan"
    /\ tasks[t].buf # <<>>
    /\ LET tok == Head(tasks[t].buf) IN
       CASE tok = "x" ->
              /\ tasks' = [tasks EXCEPT ![t].buf = Tail(@)]
              /\ UNCHANGED <<cache, promised, uriChan, pushed, pushHdrs, accepted>>
         [] tok = "bad" ->
              /\ tasks' = ScanReturns(t, "ErrURL")
              /\ UNCHANGED <<cache, promised, uriChan, pushed, pushHdrs, accepted>>
         [] OTHER ->
              /\ accepted' = [accepted EXCEPT ![tok] = @ + 1]
              /\ CASE variant \in {"func", "P"} /\ useCache ->
                        \* cache.Add(r.RequestURI, uri); pusher.URI follows
                        /\ cache' = CacheAdd(cache, req.uri, tok)
                        /\ tasks' = [tasks EXCEPT ![t].pc = "push"]
                        /\ UNCHANGED <<promised, uriChan, pushed, pushHdrs>>
                   [] variant \in {"func", "P"} /\ ~useCache ->
                        \* uriHandler.URI(uri): its error is dropped
                        /\ \E ok \in BOOLEAN : PusherPush(tok, ok)
                        /\ tasks' = Spawn(t)
                        /\ UNCHANGED <<cache, uriChan>>
                   [] variant = "piped" ->
                        \* uriChan <- uri
                        /\ Len(uriChan) < ChanCap
                        /\ uriChan' = Append(uriChan, tok)
                        /\ tasks' = Spawn(t)
                        /\ UNCHANGED <<cache, promised, pushed, pushHdrs>>
                   [] OTHER ->
                        \* legacy: pushErr := pusher.Push(uri, opts); return pushErr
                        /\ \E ok \in BOOLEAN :
                            /\ PusherPush(tok, ok)
                            /\ tasks' = IF ok THEN Spawn(t)
                                        ELSE ScanReturns(t, "ErrPush")
                        /\ UNCHANGED <<cache, uriChan>>
    /\ UNCHANGED <<extVars, scanVars, cfgVars, nreq, req, hpc, setupErr, wmode, budgetVars, written,
                   writeErrs, closeRes, down, pipeVars, gpc, werr, chanErr,
                   replayed>>

\* the caching sink after cache.Add: return pusher.URI(uri)
SinkPush(t) ==
    /\ tasks[t].pc = "push"
    /\ \E ok \in BOOLEAN : PusherPush(Head(tasks[t].buf), ok)
    /\ tasks' = Spawn(t)
    /\ UNCHANGED <<extVars, scanVars, cfgVars, cache, nreq, req, hpc, setupErr, wmode, budgetVars,
                   written, writeErrs, closeRes, down, pipeVars, gpc, werr,
                   uriChan, chanErr, replayed, accepted>>

\* the scanner of task t reaches the end of its input: io.EOF, scan returns nil
ScanEOF(t) ==
    /\ tasks[t].pc = "scan"
    /\ tasks[t].buf = <<>>
    /\ IF t = 1 THEN gpc = "parse" /\ PipeEOF ELSE TRUE
    /\ tasks' = ScanReturns(t, "nil")
    /\ UNCHANGED <<extVars, scanVars, cfgVars, cache, nreq, promised, req, hpc, setupErr, wmode,
                   budgetVars, written, writeErrs, closeRes, down, pipeVars, gpc,
                   werr, uriChan, chanErr, replayed, pushed, pushHdrs, accepted>>

\* the goroutine of a child task opens its resource: the opener fails, or
\* the resource has no scanner for its mimetype (Parse returns ErrNoParser),
\* or its scan starts
Open(t) ==
    /\ tasks[t].pc = "open"
    /\ \E o \in OpenOutcomes :
        tasks' = CASE o = "err" -> ScanReturns(t, "ErrOpen")
                   [] o = "nomime" -> ScanReturns(t, ErrNoParser)
                   [] OTHER -> [tasks EXCEPT ![t].pc = "scan",
                                             ![t].buf = Content(tasks[t].uri)]
    /\ UNCHANGED <<extVars, scanVars, cfgVars, cache, nreq, promised, req, hpc, setupErr, wmode,
                   budgetVars, written, writeErrs, closeRes, down, pipeVars, gpc,
                   werr, uriChan, chanErr, replayed, pushed, pushHdrs, accepted>>

\* mutant: Parse that returns without waiting for its children
BarrierSkipped(t) == TRUE

\* defer p.wg.Wait() of Parse, defer wg.Wait() of ParseAll: the children
\* counted in the task's WaitGroup have all called Done
BarrierSatisfied(t) == tasks[t].wg = 0

\* mutant: a child goroutine that ends without wg.Done()
TaskDoneLeaking(t) ==
    /\ tasks[t].pc = "wait"
    /\ BarrierSatisfied(t)
    /\ tasks' = [tasks EXCEPT ![t].pc = "done"]
    /\ UNCHANGED <<extVars, scanVars, cfgVars, cache, nreq, promised, req, hpc, setupErr, wmode,
                   budgetVars, written, writeErrs, closeRes, down, pipeVars, gpc,
                   werr, uriChan, chanErr, replayed, pushed, pushHdrs, accepted>>

\* mutant: a failing child hands its error to the root scan
TaskDonePropagating(t) ==
    /\ tasks[t].pc = "wait"
    /\ BarrierSatisfied(t)
    /\ tasks' = IF t = 1 THEN [tasks EXCEPT ![t].pc = "done"]
                ELSE [tasks EXCEPT ![t].pc = "done",
                                   ![Barrier(tasks[t].parent)].wg = @ - 1,
                                   ![1].err = IF tasks[t].err # "nil"
                                              THEN tasks[t].err ELSE @]
    /\ UNCHANGED <<extVars, scanVars, cfgVars, cache, nreq, promised, req, hpc, setupErr, wmode,
                   budgetVars, written, writeErrs, closeRes, down, pipeVars, gpc,
                   werr, uriChan, chanErr, replayed, pushed, pushHdrs, accepted>>

\* Parse of task t returns; a child's goroutine then calls Done on the
\* WaitGroup it was counted in
TaskDone(t) ==
    /\ tasks[t].pc = "wait"
    /\ BarrierSatisfied(t)
    /\ tasks' = IF t = 1 THEN [tasks EXCEPT ![t].pc = "done"]
                ELSE [tasks EXCEPT ![t].pc = "done",
                                   ![Barrier(tasks[t].parent)].wg = @ - 1]
    /\ UNCHANGED <<extVars, scanVars, cfgVars, cache, nreq, promised, req, hpc, setupErr, wmode,
                   budgetVars, written, writeErrs, closeRes, down, pipeVars, gpc,
                   werr, uriChan, chanErr, replayed, pushed, pushHdrs, accepted>>

\* ------------------------------------------------------------ the goroutine
\* Push of push.go: for uri := range uriChan { pusher.Push(uri, opts) },
\* keeping the first push error
PushLoop ==
    /\ variant = "piped"
    /\ gpc = "parse"
    /\ uriChan # <<>>
    /\ \E ok \in BOOLEAN :
        /\ PusherPush(Head(uriChan), ok)
        /\ chanErr' = IF chanErr = "nil" /\ ~ok THEN "ErrPush" ELSE chanErr
    /\ uriChan' = Tail(uriChan)
    /\ UNCHANGED <<extVars, scanVars, cfgVars, cache, nreq, req, hpc, setupErr, wmode, budgetVars,
                   written, writeErrs, closeRes, down, pipeVars, gpc, werr,
                   tasks, replayed, accepted>>

\* the error the goroutine of ResponseWriter gets from parser.Parse, or from
\* Push (the parse error if any, else the first push error)
PipelineErr ==
    IF variant = "piped" /\ tasks[1].err = "nil" THEN chanErr
    ELSE tasks[1].err

\* parser.Parse / Push returns in the goroutine of ResponseWriter: with an
\* error the goroutine drains tr, without one it closes pr and calls Done
ParseReturn ==
    /\ gpc = "parse"
    /\ tasks[1].pc = "done"
    /\ variant = "piped" => uriChan = <<>>
    /\ IF PipelineErr # "nil"
       THEN /\ gpc' = "drain"
            /\ UNCHANGED rclosed
       ELSE /\ gpc' = "finished"
            /\ rclosed' = "closed"
    /\ UNCHANGED <<extVars, scanVars, cfgVars, cache, nreq, promised, req, hpc, setupErr, wmode,
                   budgetVars, written, writeErrs, closeRes, down, pending,
                   wclosed, teeBuf, werr, tasks, uriChan, chanErr, replayed,
                   pushed, pushHdrs, accepted>>

\* io.Copy(ioutil.Discard, tr) / drainReader(tr) reaches io.EOF; then
\* wc.err = err, pr.Close() and wg.Done() (legacy: pr.CloseWithError(err))
DrainEOF ==
    /\ gpc = "drain"
    /\ PipeEOF
    /\ gpc' = "finished"
    /\ werr' = IF variant = "legacy" THEN werr ELSE PipelineErr
    /\ rclosed' = IF variant = "legacy" THEN PipelineErr ELSE "closed"
    /\ UNCHANGED <<extVars, scanVars, cfgVars, cache, nreq, promised, req, hpc, setupErr, wmode,
                   budgetVars, written, writeErrs, closeRes, down, pending,
                   wclosed, teeBuf, tasks, uriChan, chanErr, replayed, pushed,
                   pushHdrs, accepted>>

\* ------------------------------------------------------------ the resolver
MaxTokens == 2      \* tokens one lexer returns; parseURL calls of one parser

\* raw references as they stand in a document
Refs == {"http://example.com/header.jpg", "//example.com/header.jpg",
         "/header.jpg", "header.jpg", "../header.jpg",
         "http://other.com/header.jpg", "%zz", "", "#id"}
Hosts == {"example.com", "www.example.com", ""}
BaseURIs == {"", "/", "/dir/"}
DocURIs == {"/index.html", "/dir/index.html"}
Lookups == [host : Hosts, baseURI : BaseURIs]

\* url.Parse on the strings of the model: a path is the sequence of its
\* segments, abs tells whether it starts with a slash; "%zz" is an invalid
\* URL escape; the empty string and "#id" parse to a URL with an empty path
UrlParse(raw) ==
    CASE raw = "http://example.com/header.jpg" ->
            [err |-> FALSE, scheme |-> "http", host |-> "example.com",
             abs |-> TRUE, path |-> <<"header.jpg">>]
      [] raw = "//example.com/header.jpg" ->
            [err |-> FALSE, scheme |-> "", host |-> "example.com",
             abs |-> TRUE, path |-> <<"header.jpg">>]
      [] raw = "http://other.com/header.jpg" ->
            [err |-> FALSE, scheme |-> "http", host |-> "other.com",
             abs |-> TRUE, path |-> <<"header.jpg">>]
      [] raw = "/header.jpg" ->
            [err |-> FALSE, scheme |-> "", host |-> "",
             abs |-> TRUE, path |-> <<"header.jpg">>]
      [] raw = "header.jpg" ->
            [err |-> FALSE, scheme |-> "", host |-> "",
             abs |-> FALSE, path |-> <<"header.jpg">>]
      [] raw = "../header.jpg" ->
            [err |-> FALSE, scheme |-> "", host |-> "",
             abs |-> FALSE, path |-> <<"..", "header.jpg">>]
      [] raw \in {"", "#id"} ->
            [err |-> FALSE, scheme |-> "", host |-> "",
             abs |-> FALSE, path |-> <<>>]
      [] raw \in {"css/style.css", "d%3Fx/style.css", "img.png"} ->
            [err |-> FALSE, scheme |-> "", host |-> "", abs |-> FALSE,
             path |-> CASE raw = "css/style.css" -> <<"css", "style.css">>
                        [] raw = "d%3Fx/style.css" -> <<"d?x", "style.css">>
                        [] OTHER -> <<"img.png">>]
      [] raw \in {"/css/style.css", "/dir/css/style.css", "/d?x/style.css",
                  "/dir/d?x/style.css"} ->
            \* the path ends at the first "?"
            [err |-> FALSE, scheme |-> "", host |-> "", abs |-> TRUE,
             path |-> CASE raw = "/css/style.css" -> <<"css", "style.css">>
                        [] raw = "/dir/css/style.css" ->
                              <<"dir", "css", "style.css">>
                        [] raw = "/d?x/style.css" -> <<"d">>
                        [] OTHER -> <<"dir", "d">>]
      [] raw = "data:x" ->
            [err |-> FALSE, scheme |-> "data", host |-> "",
             abs |-> FALSE, path |-> <<>>]
      [] raw \in {"\"\"", "''"} ->
            [err |-> FALSE, scheme |-> "", host |-> "",
             abs |-> FALSE, path |-> <<raw>>]
      [] raw = "/index.html" ->
            [err |-> FALSE, scheme |-> "", host |-> "",
             abs |-> TRUE, path |-> <<"index.html">>]
      [] raw = "/dir/index.html" ->
            [err |-> FALSE, scheme |-> "", host |-> "",
             abs |-> TRUE, path |-> <<"dir", "index.html">>]
      [] OTHER ->
            [err |-> TRUE, scheme |-> "", host |-> "", abs |-> FALSE,
             path |-> <<>>]

\* reqURL, err := url.Parse(uri); reqURL.Host = lookup.host
NewParserFromLookup(l, uri) ==
    [host |-> l.host, path |-> UrlParse(uri).path]

\* the directories a prefix string names: strings.HasPrefix below compares
\* them with the leading segments of an absolute path
BasePrefix(baseURI) == IF baseURI = "/dir/" THEN <<"dir">> ELSE <<>>

\* strings.HasPrefix(resolvedURI.Path, p.baseURI) for an absolute path
HasPrefix(path, baseURI) ==
    /\ Len(path) > Len(BasePrefix(baseURI))
    /\ SubSeq(path, 1, Len(BasePrefix(baseURI))) = BasePrefix(baseURI)

\* removal of the ".." segments of a path (RFC 3986, 5.2.4), done by
\* URL.ResolveReference
RECURSIVE RemoveDotSegments(_, _)
RemoveDotSegments(done, rest) ==
    IF rest = <<>> THEN done
    ELSE IF Head(rest) = ".."
         THEN RemoveDotSegments(
                  IF done = <<>> THEN done ELSE SubSeq(done, 1, Len(done) - 1),
                  Tail(rest))
         ELSE RemoveDotSegments(Append(done, Head(rest)), Tail(rest))

\* mutant: a relative reference is joined to the root, not to the directory
\* of the document
ResolveAgainstRoot(u, ref) ==
    [host |-> IF ref.host # "" THEN ref.host ELSE u.host,
     path |-> RemoveDotSegments(<<>>, ref.path)]

\* reqURL.ResolveReference(resURL): the path of a reference with a scheme or
\* a host, or with an absolute path, replaces the path; a relative one is
\* joined to the directory of the document, and an empty one gives the path
\* of the document itself
ResolveReference(u, ref) ==
    IF ref.scheme # "" \/ ref.host # ""
    THEN [host |-> ref.host, path |-> RemoveDotSegments(<<>>, ref.path)]
    ELSE [host |-> u.host,
          path |-> RemoveDotSegments(<<>>,
                      IF ref.abs THEN ref.path
                      ELSE IF ref.path = <<>> THEN u.path
                      ELSE SubSeq(u.path, 1, Len(u.path) - 1) \o ref.path)]

\* mutant: parseURL without the scope test
parseURLUnscoped(l, u, raw) ==
    LET resURL == UrlParse(raw) IN
    IF resURL.err THEN [err |-> "ErrURL", uris |-> <<>>]
    ELSE IF resURL.host # "" /\ resURL.host # u.host
         THEN [err |-> "nil", uris |-> <<>>]
         ELSE [err |-> "nil", uris |-> <<ResolveReference(u, resURL).path>>]

\* parseURL up to the sink call: the error it returns and the URIs (none or
\* one) it passes to uriHandler.URI
parseURL(l, u, raw) ==
    LET resURL == UrlParse(raw) IN
    IF resURL.err THEN [err |-> "ErrURL", uris |-> <<>>]
    ELSE IF resURL.host # "" /\ resURL.host # u.host
         THEN [err |-> "nil", uris |-> <<>>]
         ELSE IF HasPrefix(ResolveReference(u, resURL).path, l.baseURI)
              THEN [err |-> "nil", uris |-> <<ResolveReference(u, resURL).path>>]
              ELSE [err |-> "nil", uris |-> <<>>]

\* the non-scanner variables of a behaviour that only runs a parser
NoPipeline ==
    /\ variant = "func"
    /\ useCache = FALSE
    /\ recursive = FALSE
    /\ IdlePipeline
    /\ IdleExt

mainVars == <<variant, useCache, recursive, cache, nreq, promised, req, hpc,
              setupErr, wmode, nWrites, nRefs, written, writeErrs, closeRes,
              down, pending, wclosed, rclosed, teeBuf, gpc, werr, tasks,
              uriChan, chanErr, replayed, pushed, pushHdrs, accepted>>

\* NewParser for a lookup and the address of a document
ResolveInit ==
    /\ NoPipeline
    /\ \E l \in Lookups, uri \in DocURIs :
        /\ lookup = l
        /\ reqURL = NewParserFromLookup(l, uri)
    /\ tag = ""
    /\ lexTok = [kind |-> "none"]
    /\ ntok = 0
    /\ stream = <<>>
    /\ uris = <<>>
    /\ scanErr = "none"

\* parser.parseURL(raw, handler) called on its own, as TestURLParser does,
\* with a ListHandler as the sink
ParseURLCall ==
    /\ ntok < MaxTokens
    /\ \E raw \in Refs :
        /\ lexTok' = [kind |-> "ref", raw |-> raw]
        /\ stream' = Append(stream, raw)
        /\ uris' = uris \o parseURL(lookup, reqURL, raw).uris
        /\ scanErr' = parseURL(lookup, reqURL, raw).err
    /\ ntok' = ntok + 1
    /\ UNCHANGED <<extVars, mainVars, lookup, reqURL, tag>>

ResolveNext == ParseURLCall

ResolveSpec == ResolveInit /\ [][ResolveNext]_vars

\* ------------------------------------------------------------ the scanner
MaxList == 2        \* references of one attribute value or nested fragment

\* the references, lookups and document address the scanner is run with
ScanRefs == {"/header.jpg", "header.jpg", "%zz"}
ScanLookups == [host : {"example.com"}, baseURI : {"/", "/dir/"}]
ScanDocURI == "/dir/index.html"

HTMLTags == {"link", "script", "img", "source", "audio", "video", "track",
             "embed", "input", "iframe", "object", "a", "style"}
HTMLAttrs == {"href", "src", "srcset", "data", "poster", "style", "alt"}

\* the value of an attribute: the candidates of a srcset list or the url()
\* values of an inline style, in order (splitting and trimming are not
\* modelled); one URL for every other attribute
AttrVals(attr) ==
    IF attr \in {"srcset", "style"} THEN Chunks(ScanRefs, MaxList)
    ELSE Chunks(ScanRefs, 1)

\* a start tag with one attribute
StartTags(tags, attrs) ==
    UNION {[kind : {"start"}, tag : tags, attr : {a}, val : AttrVals(a)] :
            a \in attrs}

\* what a text token holds: the url() values of a style sheet, the start
\* tags of an HTML fragment, or neither
TextTokens ==
    [kind : {"text"}, lang : {"css"}, val : Chunks(ScanRefs, MaxList)]
    \cup [kind : {"text"}, lang : {"html"},
          val : Chunks(StartTags({"img"}, {"src"}) \cup StartTags({"a"}, {"href"}),
                       MaxList)]
    \cup [kind : {"text"}, lang : {"plain"}, val : {<<>>}]

\* an embedded SVG fragment: its start tags
SvgTokens ==
    [kind : {"svg"},
     val : Chunks(StartTags({"image"}, {"xlink:href"})
                  \cup StartTags({"rect"}, {"href", "style"}), MaxList)]

\* the raw references of a token in byte order
RECURSIVE RawRefs(_)
RawRefs(t) ==
    IF t.kind = "start" THEN t.val
    ELSE IF t.kind = "text" /\ t.lang # "html" THEN t.val
    ELSE IF t.val = <<>> THEN <<>>
    ELSE Head(t.val).val \o RawRefs([t EXCEPT !.val = Tail(t.val)])

\* sequential composition of two scans: the second runs when the first
\* returned no error
Then(r1, r2) ==
    IF r1.err # "nil" THEN r1
    ELSE [err |-> r2.err, uris |-> r1.uris \o r2.uris]

NoURIs == [err |-> "nil", uris |-> <<>>]

\* mutant: the references of a list are handled last to first
RECURSIVE parseURLsReversed(_, _, _)
parseURLsReversed(l, u, raws) ==
    IF raws = <<>> THEN NoURIs
    ELSE Then(parseURLsReversed(l, u, Tail(raws)), parseURL(l, u, Head(raws)))

\* mutant: a reference url.Parse rejects is skipped
RECURSIVE parseURLsLenient(_, _, _)
parseURLsLenient(l, u, raws) ==
    IF raws = <<>> THEN NoURIs
    ELSE Then([err |-> "nil", uris |-> parseURL(l, u, Head(raws)).uris],
              parseURLsLenient(l, u, Tail(raws)))

\* for _, uri := range parseSrcset(attrVal) { if err := p.parseURL(...) };
\* the loop over val.Data of parseCSS is the same
RECURSIVE parseURLs(_, _, _)
parseURLs(l, u, raws) ==
    IF raws = <<>> THEN NoURIs
    ELSE Then(parseURL(l, u, Head(raws)), parseURLs(l, u, Tail(raws)))

\* parseCSS: every url(...) value of the declarations
parseCSS(l, u, vals) == parseURLs(l, u, vals)

\* the attribute test of parseSVG
SVGAttrScanned(tg, attr) ==
    \/ attr = "style"
    \/ /\ tg \in {"image", "script", "feImage", "color-profile", "use"}
       /\ attr \in {"href", "xlink:href"}

\* parseSVG over the start tags of a fragment
RECURSIVE parseSVG(_, _, _)
parseSVG(l, u, elems) ==
    IF elems = <<>> THEN NoURIs
    ELSE Then(IF ~SVGAttrScanned(Head(elems).tag, Head(elems).attr) THEN NoURIs
              ELSE IF Head(elems).attr = "style"
                   THEN parseCSS(l, u, Head(elems).val)
                   ELSE parseURL(l, u, Head(elems).val[1]),
              parseSVG(l, u, Tail(elems)))

\* mutant: href counts on every tag
HTMLAttrScannedAnyHref(tg, attr) ==
    attr \in {"style", "src", "srcset", "poster", "data", "href"}

\* the attribute test of parseHTML
HTMLAttrScanned(tg, attr) ==
    \/ attr \in {"style", "src", "srcset", "poster", "data"}
    \/ attr = "href" /\ tg = "link"

\* parseHTML, case html.StartTagToken: the attribute of one start tag
parseStartTag(l, u, t) ==
    IF ~HTMLAttrScanned(t.tag, t.attr) THEN NoURIs
    ELSE IF t.attr = "style" THEN parseCSS(l, u, t.val)
    ELSE IF t.attr = "srcset" THEN parseURLs(l, u, t.val)
    ELSE parseURL(l, u, t.val[1])

\* parseHTML over the start tags of the text of an iframe
RECURSIVE parseHTMLFragment(_, _, _)
parseHTMLFragment(l, u, elems) ==
    IF elems = <<>> THEN NoURIs
    ELSE Then(parseStartTag(l, u, Head(elems)),
              parseHTMLFragment(l, u, Tail(elems)))

\* parseHTML, case html.TextToken: CSS under style, HTML under iframe
parseText(l, u, tg, t) ==
    IF tg = "style" THEN (IF t.lang = "css" THEN parseCSS(l, u, t.val) ELSE NoURIs)
    ELSE IF tg = "iframe"
         THEN (IF t.lang = "html" THEN parseHTMLFragment(l, u, t.val) ELSE NoURIs)
         ELSE NoURIs

\* a scanner over one HTML document, before its first token
ScanInit ==
    /\ NoPipeline
    /\ lookup \in ScanLookups
    /\ reqURL = NewParserFromLookup(lookup, ScanDocURI)
    /\ tag = "" /\ lexTok = [kind |-> "none"] /\ ntok = 0
    /\ stream = <<>> /\ uris = <<>> /\ scanErr = "none"

\* one turn of the loop of parseHTML on token t whose scan gave r: the sink
\* has received r.uris, and an error ends the scan
LexerNext(t, r) ==
    /\ lexTok' = t
    /\ ntok' = ntok + 1
    /\ stream' = stream \o RawRefs(t)
    /\ uris' = uris \o r.uris
    /\ scanErr' = IF r.err = "nil" THEN "none" ELSE r.err
    /\ UNCHANGED <<extVars, mainVars, lookup, reqURL>>

\* case html.StartTagToken
StartTagToken ==
    /\ scanErr = "none" /\ ntok < MaxTokens
    /\ \E t \in StartTags(HTMLTags, HTMLAttrs) :
        /\ tag' = t.tag
        /\ LexerNext(t, parseStartTag(lookup, reqURL, t))

\* case html.SvgToken
SvgToken ==
    /\ scanErr = "none" /\ ntok < MaxTokens
    /\ \E t \in SvgTokens :
        /\ LexerNext(t, parseSVG(lookup, reqURL, t.val))
        /\ UNCHANGED tag

\* case html.TextToken
TextToken ==
    /\ scanErr = "none" /\ ntok < MaxTokens
    /\ \E t \in TextTokens :
        /\ LexerNext(t, parseText(lookup, reqURL, tag, t))
        /\ UNCHANGED tag

\* case html.ErrorToken with io.EOF: parseHTML returns nil
ErrorTokenEOF ==
    /\ scanErr = "none"
    /\ lexTok' = [kind |-> "eof"]
    /\ scanErr' = "nil"
    /\ UNCHANGED <<extVars, mainVars, lookup, reqURL, tag, ntok, stream, uris>>

ScanNext ==
    \/ StartTagToken
    \/ SvgToken
    \/ TextToken
    \/ ErrorTokenEOF

ScanSpec == ScanInit /\ [][ScanNext]_vars

\* ------------------------------------------------------------ style sheets
\* the contents of url(...) and the quotes around them
CssBodies == {"", "data:x", "header.jpg", "/header.jpg", "%zz"}
CssQuotes == {"", "\"", "'"}

\* the values of a declaration: URL tokens as the lexer returns them, and
\* an identifier
CssValues ==
    {[type |-> "URL", data |-> "url(" \o q \o b \o q \o ")"] :
        q \in CssQuotes, b \in CssBodies}
    \cup {[type |-> "Ident", data |-> "red"]}

\* bytes.HasPrefix(url, []byte("data:"))
HasDataPrefix(url) == Len(url) >= 5 /\ SubSeq(url, 1, 5) = "data:"

\* url := val.Data[4 : len(val.Data)-1], and the quotes taken off when
\* len(url) > 2
URLTokenURL(data) ==
    LET url == SubSeq(data, 5, Len(data) - 1) IN
    IF Len(url) > 2 /\ SubSeq(url, 1, 1) \in {"\"", "'"}
    THEN SubSeq(url, 2, Len(url) - 1)
    ELSE url

\* the body of `for _, val := range vals` in parseCSS up to the call of
\* parseURL: the string handed to it, if any
valueURLs(val) ==
    IF val.type = "URL" /\ Len(val.data) > 5
       /\ ~HasDataPrefix(URLTokenURL(val.data))
    THEN <<URLTokenURL(val.data)>>
    ELSE <<>>

RECURSIVE declarationURLs(_)
declarationURLs(vals) ==
    IF vals = <<>> THEN <<>>
    ELSE valueURLs(Head(vals)) \o declarationURLs(Tail(vals))

\* the strings among raws that parseURL is called with: all up to the first
\* one url.Parse rejects
RECURSIVE CalledWith(_)
CalledWith(raws) ==
    IF raws = <<>> THEN <<>>
    ELSE IF UrlParse(Head(raws)).err THEN <<Head(raws)>>
    ELSE <<Head(raws)>> \o CalledWith(Tail(raws))

\* Parse(r, "text/css", ...): a parser over a style sheet
CssInit == ScanInit

\* gt == css.DeclarationGrammar: the values of one declaration
DeclarationGrammar ==
    /\ scanErr = "none" /\ ntok < MaxTokens
    /\ \E vals \in Chunks(CssValues, MaxList) :
        LET r == parseCSS(lookup, reqURL, declarationURLs(vals)) IN
        /\ lexTok' = [kind |-> "decl", vals |-> vals]
        /\ stream' = stream \o CalledWith(declarationURLs(vals))
        /\ uris' = uris \o r.uris
        /\ scanErr' = IF r.err = "nil" THEN "none" ELSE r.err
    /\ ntok' = ntok + 1
    /\ UNCHANGED <<extVars, mainVars, lookup, reqURL, tag>>

\* gt == css.ErrorGrammar with io.EOF: parseCSS returns nil
ErrorGrammarEOF ==
    /\ scanErr = "none"
    /\ lexTok' = [kind |-> "eof"]
    /\ scanErr' = "nil"
    /\ UNCHANGED <<extVars, mainVars, lookup, reqURL, tag, ntok, stream, uris>>

CssNext ==
    \/ DeclarationGrammar
    \/ ErrorGrammarEOF

CssSpec == CssInit /\ [][CssNext]_vars

\* ------------------------------------------------------------ collecting sinks
\* the documents List is called with: tokens of the root document
ListTokens == {"x", "/a.css", "/logo.png", "bad"}
ListDocs == Chunks(ListTokens, MaxChunk)
ListURI == "/index.html"

\* what the sink has collected: ListHandler.URIs, or the entry of the
\* request in the cache for the cache-writing sink of ResponseWriter
Collected ==
    IF useCache THEN CacheGet(cache, ListURI).resources ELSE uris

\* mutant: a sink without its mutex
MutexUnlocked == TRUE

\* h.mutex.Lock() of ListHandler.URI, c.mutex.Lock() of DefaultCache.Add:
\* no other task is inside
MutexFree == mutex = <<>>

\* a parser, a sink and a document, before List is called
ListInit ==
    /\ variant = "func"
    /\ useCache \in BOOLEAN
    /\ recursive \in BOOLEAN
    /\ IdlePipeline
    /\ IdleScanner
    /\ listDoc \in ListDocs
    /\ firstURIs = <<>>
    /\ mutex = <<>>
    /\ cacheLog = <<>>
    /\ conns = <<>>
    /\ mime = NoMime
    /\ rd = NoReader

\* List(baseURL, opener, r, mimetype, uri) with a new sink, for the first
\* time or again once the first call has returned
ListCall ==
    /\ nreq < MaxRequests
    /\ IF tasks = <<>> THEN TRUE ELSE tasks[1].pc = "done"
    /\ nreq' = nreq + 1
    /\ firstURIs' = IF nreq = 1 THEN Collected ELSE firstURIs
    /\ tasks' = <<[parent |-> 0, uri |-> ListURI, buf |-> listDoc, wg |-> 0,
                   pc |-> "scan", err |-> "nil"]>>
    /\ uris' = <<>>
    /\ cache' = IF useCache THEN CacheDel(cache, ListURI) ELSE cache
    /\ accepted' = [u \in AllURIs |-> 0]
    /\ UNCHANGED <<cfgVars, promised, req, hpc, setupErr, wmode, budgetVars,
                   written, writeErrs, closeRes, down, pipeVars, gpc, werr,
                   uriChan, chanErr, replayed, pushed, pushHdrs, lookup,
                   reqURL, tag, lexTok, ntok, stream, scanErr, listDoc, mutex,
                   moreVars>>

\* the scanner of task t handles its next token up to the call of the sink
ListToken(t) ==
    /\ tasks[t].pc = "scan"
    /\ tasks[t].buf # <<>>
    /\ tasks' = CASE Head(tasks[t].buf) = "x" -> [tasks EXCEPT ![t].buf = Tail(@)]
                  [] Head(tasks[t].buf) = "bad" -> ScanReturns(t, "ErrURL")
                  [] OTHER -> [tasks EXCEPT ![t].pc = "lock"]
    /\ UNCHANGED <<cfgVars, cache, nreq, promised, req, hpc, setupErr, wmode,
                   budgetVars, written, writeErrs, closeRes, down, pipeVars,
                   gpc, werr, uriChan, chanErr, replayed, pushed, pushHdrs,
                   accepted, scanVars, extVars>>

\* the sink is called for the URI at the head of the buffer: Lock(), and the
\* slice or map entry is read
SinkLock(t) ==
    /\ tasks[t].pc = "lock"
    /\ MutexFree
    /\ mutex' = Append(mutex, [task |-> t, cache |-> cache, uris |-> uris])
    /\ accepted' = [accepted EXCEPT ![Head(tasks[t].buf)] = @ + 1]
    /\ tasks' = [tasks EXCEPT ![t].pc = "sink"]
    /\ UNCHANGED <<cfgVars, cache, nreq, promised, req, hpc, setupErr, wmode,
                   budgetVars, written, writeErrs, closeRes, down, pipeVars,
                   gpc, werr, uriChan, chanErr, replayed, pushed, pushHdrs,
                   scanVars, listDoc, firstURIs, moreVars>>

\* h.URIs = append(h.URIs, uri) / c.uris[uri] = append(c.uris[uri], resource)
\* on the value read, Unlock(); the sink returns and parseURL goes on
SinkUnlock(t) ==
    /\ tasks[t].pc = "sink"
    /\ \E i \in 1..Len(mutex) :
        /\ mutex[i].task = t
        /\ IF useCache
           THEN /\ cache' = CacheAdd(mutex[i].cache, ListURI, Head(tasks[t].buf))
                /\ UNCHANGED uris
           ELSE /\ uris' = Append(mutex[i].uris, Head(tasks[t].buf))
                /\ UNCHANGED cache
        /\ mutex' = SubSeq(mutex, 1, i - 1) \o SubSeq(mutex, i + 1, Len(mutex))
    /\ tasks' = Spawn(t)
    /\ UNCHANGED <<cfgVars, nreq, promised, req, hpc, setupErr, wmode,
                   budgetVars, written, writeErrs, closeRes, down, pipeVars,
                   gpc, werr, uriChan, chanErr, replayed, pushed, pushHdrs,
                   accepted, lookup, reqURL, tag, lexTok, ntok, stream,
                   scanErr, listDoc, firstURIs, moreVars>>

\* the goroutine of a child task opens its resource with an opener that
\* supplies every resource; Parse returns ErrNoParser for a mimetype
\* without scanner
ListOpen(t) ==
    /\ tasks[t].pc = "open"
    /\ tasks' = IF SupportedMimetype(ExtToMimetype(PathExt(tasks[t].uri)))
                THEN [tasks EXCEPT ![t].pc = "scan",
                                   ![t].buf = Content(tasks[t].uri)]
                ELSE ScanReturns(t, ErrNoParser)
    /\ UNCHANGED <<cfgVars, cache, nreq, promised, req, hpc, setupErr, wmode,
                   budgetVars, written, writeErrs, closeRes, down, pipeVars,
                   gpc, werr, uriChan, chanErr, replayed, pushed, pushHdrs,
                   accepted, scanVars, extVars>>

\* the scanner of task t reaches the end of its input
ListEOF(t) ==
    /\ tasks[t].pc = "scan"
    /\ tasks[t].buf = <<>>
    /\ tasks' = ScanReturns(t, "nil")
    /\ UNCHANGED <<cfgVars, cache, nreq, promised, req, hpc, setupErr, wmode,
                   budgetVars, written, writeErrs, closeRes, down, pipeVars,
                   gpc, werr, uriChan, chanErr, replayed, pushed, pushHdrs,
                   accepted, scanVars, extVars>>

ListNext ==
    \/ ListCall
    \/ \E t \in Tasks : ListToken(t)
    \/ \E t \in Tasks : SinkLock(t)
    \/ \E t \in Tasks : SinkUnlock(t)
    \/ \E t \in Tasks : ListOpen(t)
    \/ \E t \in Tasks : ListEOF(t)
    \/ \E t \in Tasks : TaskDone(t)

ListSpec == ListInit /\ [][ListNext]_vars

\* ------------------------------------------------------------ cache calls
MaxOps == 4         \* calls made on one DefaultCache

CacheKeys == ReqURIs
CacheResources == ResURIs

\* NewDefaultCache()
CacheInit ==
    /\ variant = "func"
    /\ useCache = TRUE
    /\ recursive = FALSE
    /\ IdlePipeline
    /\ IdleScanner
    /\ IdleExt

CacheFrame ==
    UNCHANGED <<cfgVars, nreq, promised, req, hpc, setupErr, wmode, budgetVars,
                written, writeErrs, closeRes, down, pipeVars, gpc, werr,
                tasks, uriChan, chanErr, replayed, pushed, pushHdrs, accepted,
                scanVars, listDoc, firstURIs, mutex, conns, mime, rd>>

\* (c *DefaultCache) Get(uri)
Get ==
    /\ Len(cacheLog) < MaxOps
    /\ \E k \in CacheKeys :
        cacheLog' = Append(cacheLog, [op |-> "Get", key |-> k,
                                      got |-> CacheGet(cache, k)])
    /\ UNCHANGED cache
    /\ CacheFrame

\* (c *DefaultCache) Add(uri, resource)
Add ==
    /\ Len(cacheLog) < MaxOps
    /\ \E k \in CacheKeys, r \in CacheResources :
        /\ cache' = CacheAdd(cache, k, r)
        /\ cacheLog' = Append(cacheLog, [op |-> "Add", key |-> k,
                                         resource |-> r])
    /\ CacheFrame

\* (c *DefaultCache) Del(uri)
Del ==
    /\ Len(cacheLog) < MaxOps
    /\ \E k \in CacheKeys :
        /\ cache' = CacheDel(cache, k)
        /\ cacheLog' = Append(cacheLog, [op |-> "Del", key |-> k])
    /\ CacheFrame

CacheNext == Get \/ Add \/ Del

CacheSpec == CacheInit /\ [][CacheNext]_vars

\* ------------------------------------------------------------ shared cache
\* Requests handled at the same time by handlers that share one DefaultCache.
\* Every request has a Pusher, no X-Pushed header and a document with a
\* scanner; every push succeeds.
MaxConns == 2       \* requests in flight on the shared cache

ServeHosts == {"example.com", "other.com"}
ServeURIs == {"/index.html", "/b.svg"}

\* the URIs the scan of the document of a host accepts, in order
Accepts(host, uri) ==
    CASE uri = "/b.svg" -> <<>>
      [] host = "example.com" -> <<"/a.css", "/b.svg">>
      [] OTHER -> <<"/logo.png">>

\* the cache key of a request
CacheKey(c) == c.uri

\* the requests that have returned from the handler
Finished == {i \in 1..Len(conns) : conns[i].pc = "done"}

ServeInit ==
    /\ variant \in {"func", "P"}
    /\ useCache = TRUE
    /\ recursive = FALSE
    /\ IdlePipeline
    /\ IdleScanner
    /\ IdleExt

ServeFrame ==
    UNCHANGED <<cfgVars, nreq, promised, req, hpc, setupErr, wmode, budgetVars,
                written, writeErrs, closeRes, down, pipeVars, gpc, werr,
                tasks, uriChan, chanErr, replayed, pushed, pushHdrs, accepted,
                scanVars, listDoc, firstURIs, mutex, cacheLog, mime, rd>>

\* the server starts a handler goroutine for a request
Serve ==
    /\ Len(conns) < MaxConns
    /\ \E h \in ServeHosts, u \in ServeURIs :
        conns' = Append(conns, [host |-> h, uri |-> u, pc |-> "get",
                                hit |-> FALSE, buf |-> <<>>,
                                replayed |-> <<>>, finished |-> {}])
    /\ UNCHANGED cache
    /\ ServeFrame

\* ResponseWriter: cache.Get(r.RequestURI); on a hit the resources are
\* pushed and the request is served without scanner
ServeGet(i) ==
    /\ conns[i].pc = "get"
    /\ LET got == CacheGet(cache, CacheKey(conns[i]))
       IN  conns' = [conns EXCEPT ![i].hit = got.ok,
                                  ![i].replayed = got.resources,
                                  ![i].finished = Finished,
                                  ![i].pc = IF got.ok THEN "done" ELSE "del"]
    /\ UNCHANGED cache
    /\ ServeFrame

\* ResponseWriter: cache.Del(r.RequestURI) after a miss; the pipeline is
\* started
ServeDel(i) ==
    /\ conns[i].pc = "del"
    /\ cache' = CacheDel(cache, CacheKey(conns[i]))
    /\ conns' = [conns EXCEPT ![i].pc = "scan",
                              ![i].buf = Accepts(conns[i].host, conns[i].uri)]
    /\ ServeFrame

\* the cache-writing sink: cache.Add(r.RequestURI, uri); pusher.URI(uri)
ServeSink(i) ==
    /\ conns[i].pc = "scan"
    /\ conns[i].buf # <<>>
    /\ cache' = CacheAdd(cache, CacheKey(conns[i]), Head(conns[i].buf))
    /\ conns' = [conns EXCEPT ![i].buf = Tail(@)]
    /\ ServeFrame

\* the scan reaches the end of the document and Close returns
ServeClose(i) ==
    /\ conns[i].pc = "scan"
    /\ conns[i].buf = <<>>
    /\ conns' = [conns EXCEPT ![i].pc = "done"]
    /\ UNCHANGED cache
    /\ ServeFrame

ServeNext ==
    \/ Serve
    \/ \E i \in 1..Len(conns) : ServeGet(i)
    \/ \E i \in 1..Len(conns) : ServeDel(i)
    \/ \E i \in 1..Len(conns) : ServeSink(i)
    \/ \E i \in 1..Len(conns) : ServeClose(i)

ServeSpec == ServeInit /\ [][ServeNext]_vars

\* ------------------------------------------------------------ mimetype
\* requests by extension, and the Content-Type values a request or a
\* response carries ("": not set, ";": no media type)
MimeURIs == {"/", "/index.html", "/a.css", "/b.svg", "/logo.png"}
MimeTypes == {"", "text/css", "text/css; charset=utf-8", "image/png", ";"}

\* Parse(r, mimetype, uri): the scanner of a mimetype, or ErrNoParser
Selected(mimetype) ==
    IF SupportedMimetype(mimetype) THEN mimetype ELSE ErrNoParser

MimeInit ==
    /\ variant \in {"func", "P"}
    /\ useCache = FALSE
    /\ recursive = FALSE
    /\ IdlePipeline
    /\ IdleScanner
    /\ listDoc = <<>>
    /\ firstURIs = <<>>
    /\ mutex = <<>>
    /\ cacheLog = <<>>
    /\ conns = <<>>
    /\ rd = NoReader
    /\ mime \in [uri : MimeURIs, request : MimeTypes, response : MimeTypes,
                 selected : {"none"}]

MimeFrame ==
    UNCHANGED <<mainVars, scanVars, listDoc, firstURIs, mutex, cacheLog, conns,
                rd>>

\* ResponseWriter: the mimetype gate
SelectResponseWriter ==
    /\ variant = "func"
    /\ mime.selected = "none"
    /\ mime' = [mime EXCEPT
                  !.selected = Selected(GateMimetype(mime.request, mime.uri))]
    /\ MimeFrame

\* P.ResponseWriter and the first Write on its writer
SelectFirstWrite ==
    /\ variant = "P"
    /\ mime.selected = "none"
    /\ mime' = [mime EXCEPT
                  !.selected = Selected(WriterMimetype(mime.response, mime.uri))]
    /\ MimeFrame

MimeNext == SelectResponseWriter \/ SelectFirstWrite

MimeSpec == MimeInit /\ [][MimeNext]_vars

\* ------------------------------------------------------------ Reader
\* Reader(r, parser, mimetype, uri) on a parser whose sink is a ListHandler;
\* the consumer reads the returned reader until it reports something
ReaderInit ==
    /\ variant = "func"
    /\ useCache = FALSE
    /\ recursive \in BOOLEAN
    /\ IdlePipeline
    /\ IdleScanner
    /\ listDoc \in ListDocs
    /\ firstURIs = <<>>
    /\ mutex = <<>>
    /\ cacheLog = <<>>
    /\ conns = <<>>
    /\ mime = NoMime
    /\ rd = NoReader

ReaderFrame ==
    UNCHANGED <<cfgVars, cache, nreq, promised, req, hpc, setupErr, wmode,
                budgetVars, written, writeErrs, closeRes, down, wclosed,
                rclosed, teeBuf, gpc, werr, uriChan, chanErr, replayed, pushed,
                pushHdrs, accepted, scanVars, listDoc, firstURIs, mutex,
                cacheLog, conns, mime>>

\* pr, pw := io.Pipe(); go func() { r = io.TeeReader(r, pw); parser.Parse(...) }
ReaderCall ==
    /\ tasks = <<>>
    /\ tasks' = <<[parent |-> 0, uri |-> ListURI, buf |-> <<>>, wg |-> 0,
                   pc |-> "scan", err |-> "nil"]>>
    /\ rd' = [rd EXCEPT !.src = listDoc]
    /\ UNCHANGED pending
    /\ ReaderFrame

\* the lexer of the root scan reads from the TeeReader: r.Read returns the
\* next n tokens of the source and pw.Write(p[:n]) blocks on the pipe
TeeRead ==
    /\ tasks # <<>>
    /\ tasks[1].pc = "scan"
    /\ tasks[1].buf = <<>>
    /\ \E n \in 1..Len(rd.src) :
        /\ pending' = SubSeq(rd.src, 1, n)
        /\ tasks' = [tasks EXCEPT ![1].buf = SubSeq(rd.src, 1, n),
                                  ![1].pc = "teewrite"]
        /\ rd' = [rd EXCEPT !.src = SubSeq(rd.src, n + 1, Len(rd.src))]
    /\ ReaderFrame

\* the consumer's Read on pr takes data of the blocked Write
ConsumerRead ==
    /\ pending # <<>>
    /\ rd.res = "none"
    /\ \E n \in 1..Len(pending) :
        /\ rd' = [rd EXCEPT !.read = @ \o SubSeq(pending, 1, n)]
        /\ pending' = SubSeq(pending, n + 1, Len(pending))
    /\ UNCHANGED tasks
    /\ ReaderFrame

\* pw.Write returns once all of its data has been read; the lexer has the
\* tokens
TeeReadReturn ==
    /\ tasks # <<>>
    /\ tasks[1].pc = "teewrite"
    /\ pending = <<>>
    /\ tasks' = [tasks EXCEPT ![1].pc = "scan"]
    /\ UNCHANGED <<pending, rd>>
    /\ ReaderFrame

\* the scanner of task t reaches the end of its input; for the root the
\* source has returned io.EOF
ReaderEOF(t) ==
    /\ t = 1 => rd.src = <<>>
    /\ ListEOF(t)

\* Parse has returned: pw.CloseWithError(err) or pw.Close()
ReaderClose ==
    /\ tasks # <<>>
    /\ tasks[1].pc = "done"
    /\ rd.closed = "open"
    /\ rd' = [rd EXCEPT !.closed = IF tasks[1].err = "nil" THEN "EOF"
                                   ELSE tasks[1].err]
    /\ UNCHANGED <<pending, tasks>>
    /\ ReaderFrame

\* the consumer's Read on pr of the closed pipe reports io.EOF or the error
ConsumerEOF ==
    /\ pending = <<>>
    /\ rd.closed # "open"
    /\ rd.res = "none"
    /\ rd' = [rd EXCEPT !.res = rd.closed]
    /\ UNCHANGED <<pending, tasks>>
    /\ ReaderFrame

ReaderNext ==
    \/ ReaderCall
    \/ TeeRead
    \/ ConsumerRead
    \/ TeeReadReturn
    \/ ReaderClose
    \/ ConsumerEOF
    \/ \E t \in Tasks : ReaderEOF(t)
    \/ \E t \in Tasks : ListToken(t)
    \/ \E t \in Tasks : SinkLock(t)
    \/ \E t \in Tasks : SinkUnlock(t)
    \/ \E t \in Tasks : ListOpen(t)
    \/ \E t \in Tasks : TaskDone(t)

\* the goroutines are scheduled, and the consumer reads until its Read
\* reports the end or an error
ReaderSpec == ReaderInit /\ [][ReaderNext]_vars /\ WF_vars(ReaderNext)

\* ------------------------------------------------------------ cyclic resources
\* List with a recursive opener over resources that reference each other
MaxTasks == 6       \* scan tasks of one tree (the recursion itself has no limit)

\* what the opener serves: /a.css references /b.svg, /b.svg references /a.css
CycleContent(uri) ==
    CASE uri = "/a.css" -> <<"/b.svg">>
      [] uri = "/b.svg" -> <<"/a.css">>
      [] OTHER -> <<>>

\* root documents whose scan accepts /a.css
CycleDocs ==
    {d \in ListDocs :
        \E i \in 1..Len(d) : d[i] = "/a.css" /\ \A j \in 1..i : d[j] # "bad"}

CycleInit ==
    /\ ListInit
    /\ recursive
    /\ listDoc \in CycleDocs

\* the goroutine of a child task opens its resource
CycleOpen(t) ==
    /\ tasks[t].pc = "open"
    /\ tasks' = IF SupportedMimetype(ExtToMimetype(PathExt(tasks[t].uri)))
                THEN [tasks EXCEPT ![t].pc = "scan",
                                   ![t].buf = CycleContent(tasks[t].uri)]
                ELSE ScanReturns(t, ErrNoParser)
    /\ UNCHANGED <<cfgVars, cache, nreq, promised, req, hpc, setupErr, wmode,
                   budgetVars, written, writeErrs, closeRes, down, pipeVars,
                   gpc, werr, uriChan, chanErr, replayed, pushed, pushHdrs,
                   accepted, scanVars, extVars>>

CycleNext ==
    \/ ListCall
    \/ \E t \in Tasks : ListToken(t)
    \/ \E t \in Tasks : SinkLock(t)
    \/ \E t \in Tasks : Len(tasks) < MaxTasks /\ SinkUnlock(t)
    \/ \E t \in Tasks : CycleOpen(t)
    \/ \E t \in Tasks : ListEOF(t)
    \/ \E t \in Tasks : TaskDone(t)

CycleSpec == CycleInit /\ [][CycleNext]_vars

\* ------------------------------------------------------------ child parsers
\* A recursive parser over a style sheet the root document references: the
\* goroutine of parseURL opens the accepted URI and scans it with a parser of
\* its own.
ChildRootRefs == {"css/style.css", "/css/style.css", "d%3Fx/style.css",
                  "header.jpg", "http://other.com/header.jpg"}
ChildRefs == {"img.png", "../header.jpg", "/header.jpg",
              "http://other.com/header.jpg"}
ChildDocURIs == {"/index.html", "/dir/index.html"}

\* URL.Path as a string: uri := resolvedURI.Path
RECURSIVE PathString(_)
PathString(path) ==
    IF path = <<>> THEN "" ELSE "/" \o Head(path) \o PathString(Tail(path))

\* a scan task of a child parser: uri is the string the goroutine got, path
\* the URI as the sink received it
ChildParserTask(t, path) ==
    [parent |-> t, uri |-> PathString(path), path |-> path, buf |-> <<>>,
     wg |-> 0, pc |-> "open", err |-> "nil"]

\* the Document Address of task t: Parser.reqURL of its parser
AddressOf(t) ==
    IF t = 1 THEN reqURL ELSE NewParserFromLookup(lookup, tasks[t].uri)

ChildInit ==
    /\ variant = "func"
    /\ useCache = FALSE
    /\ recursive = TRUE
    /\ IdlePipeline
    /\ IdleExt
    /\ \E l \in ScanLookups, uri \in ChildDocURIs :
        /\ lookup = l
        /\ reqURL = NewParserFromLookup(l, uri)
    /\ tag = ""
    /\ lexTok = [kind |-> "none"]
    /\ ntok = 0
    /\ stream = <<>>
    /\ uris = <<>>
    /\ scanErr = "none"

ChildFrame ==
    UNCHANGED <<cfgVars, cache, nreq, promised, req, hpc, setupErr, wmode,
                budgetVars, written, writeErrs, closeRes, down, pipeVars, gpc,
                werr, uriChan, chanErr, replayed, pushed, pushHdrs, accepted,
                extVars, lookup, reqURL, tag>>

\* Parse of the root document starts: a document with one reference
ChildParse ==
    /\ tasks = <<>>
    /\ \E raw \in ChildRootRefs :
        tasks' = <<[parent |-> 0, uri |-> PathString(reqURL.path),
                    path |-> reqURL.path, buf |-> <<raw>>, wg |-> 0,
                    pc |-> "scan", err |-> "nil"]>>
    /\ UNCHANGED <<lexTok, ntok, stream, uris, scanErr>>
    /\ ChildFrame

\* parseURL of task t for the reference at the head of its buffer: the sink
\* call and, for an accepted URI, wg.Add(1) and the goroutine
ChildParseURL(t) ==
    /\ tasks[t].pc = "scan"
    /\ tasks[t].buf # <<>>
    /\ LET raw == Head(tasks[t].buf)
           res == parseURL(lookup, AddressOf(t), raw)
           ts == IF res.err # "nil"
                 THEN [tasks EXCEPT ![t].pc = "wait", ![t].err = res.err,
                                    ![t].buf = <<>>]
                 ELSE [tasks EXCEPT ![t].buf = Tail(@)]
       IN  /\ lexTok' = [kind |-> "ref", raw |-> raw, task |-> t]
           /\ stream' = Append(stream, raw)
           /\ uris' = uris \o res.uris
           /\ tasks' = IF res.uris = <<>> THEN ts
                       ELSE Append([ts EXCEPT ![t].wg = @ + 1],
                                   ChildParserTask(t, res.uris[1]))
    /\ ntok' = ntok + 1
    /\ UNCHANGED scanErr
    /\ ChildFrame

\* the goroutine: opener.Open(uri), NewParser(p.Lookup, uri) and the start
\* of childParser.Parse; the opener has style sheets only, each with one
\* reference
ChildOpen(t) ==
    /\ tasks[t].pc = "open"
    /\ IF tasks[t].path # <<>> /\ tasks[t].path[Len(tasks[t].path)] = "style.css"
          /\ ~UrlParse(tasks[t].uri).err
       THEN \E raw \in ChildRefs :
               tasks' = [tasks EXCEPT ![t].pc = "scan", ![t].buf = <<raw>>]
       ELSE tasks' = [tasks EXCEPT ![t].pc = "wait", ![t].err = "ErrOpen"]
    /\ UNCHANGED <<lexTok, ntok, stream, uris, scanErr>>
    /\ ChildFrame

\* the scanner of task t reaches the end of its input
ChildEOF(t) ==
    /\ tasks[t].pc = "scan"
    /\ tasks[t].buf = <<>>
    /\ tasks' = [tasks EXCEPT ![t].pc = "wait"]
    /\ UNCHANGED <<lexTok, ntok, stream, uris, scanErr>>
    /\ ChildFrame

\* Parse of task t returns after p.wg.Wait(); a child's goroutine calls Done
ChildDone(t) ==
    /\ tasks[t].pc = "wait"
    /\ tasks[t].wg = 0
    /\ tasks' = IF t = 1 THEN [tasks EXCEPT ![t].pc = "done"]
                ELSE [tasks EXCEPT ![t].pc = "done",
                                   ![tasks[t].parent].wg = @ - 1]
    /\ scanErr' = IF t = 1 THEN tasks[t].err ELSE scanErr
    /\ UNCHANGED <<lexTok, ntok, stream, uris>>
    /\ ChildFrame

ChildNext ==
    \/ ChildParse
    \/ \E t \in Tasks : ChildParseURL(t)
    \/ \E t \in Tasks : ChildOpen(t)
    \/ \E t \in Tasks : ChildEOF(t)
    \/ \E t \in Tasks : ChildDone(t)

ChildSpec == ChildInit /\ [][ChildNext]_vars

\* ------------------------------------------------------------ srcset lists
\* the bytes of a srcset attribute value, at most MaxSrcset of them
MaxSrcset == 5
SrcsetBytes == {"a", "x", " ", ","}

RECURSIVE BytesUpTo(_)
BytesUpTo(n) ==
    IF n = 0 THEN {<<>>}
    ELSE LET shorter == BytesUpTo(n - 1) IN
         shorter \cup {Append(b, c) : b \in shorter, c \in SrcsetBytes}

\* parse.IsWhitespace
IsWhitespace(c) == c \in {" ", "\t", "\n", "\r", "\f"}

\* mutant: the candidate from its first byte, leading whitespace not skipped
parseSrcsetCandidateUnskipped(b) ==
    LET n == Len(b)
        stops == {i \in 1..n : IsWhitespace(b[i])}
        end == IF stops = {} THEN n + 1
               ELSE CHOOSE i \in stops : \A j \in stops : i <= j
    IN  SubSeq(b, 1, end - 1)

\* parseSrcsetCandidate: start is the first byte that is not whitespace (the
\* first byte of b when there is none), end the first whitespace from start
\* on (the end of b when there is none)
parseSrcsetCandidate(b) ==
    LET n == Len(b)
        solid == {i \in 1..n : ~IsWhitespace(b[i])}
        start == IF solid = {} THEN 1
                 ELSE CHOOSE i \in solid : \A j \in solid : i <= j
        stops == {i \in start..n : IsWhitespace(b[i])}
        end == IF stops = {} THEN n + 1
               ELSE CHOOSE i \in stops : \A j \in stops : i <= j
    IN  SubSeq(b, start, end - 1)

\* the loop of parseSrcset at index i with the current candidate starting
\* at start
RECURSIVE parseSrcsetLoop(_, _, _, _)
parseSrcsetLoop(b, start, i, list) ==
    IF i > Len(b)
    THEN Append(list, parseSrcsetCandidate(SubSeq(b, start, Len(b))))
    ELSE IF b[i] = ","
         THEN parseSrcsetLoop(b, i + 1, i + 1,
                  Append(list, parseSrcsetCandidate(SubSeq(b, start, i - 1))))
         ELSE parseSrcsetLoop(b, start, i + 1, list)

parseSrcset(b) == parseSrcsetLoop(b, 1, 1, <<>>)

\* a parser over a document whose img element has a srcset attribute
SrcsetInit ==
    /\ NoPipeline
    /\ lookup \in ScanLookups
    /\ reqURL = NewParserFromLookup(lookup, ScanDocURI)
    /\ tag = "img" /\ lexTok = [kind |-> "none"] /\ ntok = 0
    /\ stream \in BytesUpTo(MaxSrcset)
    /\ uris = <<>> /\ scanErr = "none"

\* attr == html.Srcset: the strings the loop over parseSrcset(attrVal) calls
\* parseURL with
SrcsetAttr ==
    /\ ntok = 0
    /\ lexTok' = [kind |-> "srcset"]
    /\ ntok' = 1
    /\ uris' = parseSrcset(stream)
    /\ UNCHANGED <<extVars, mainVars, lookup, reqURL, tag, stream, scanErr>>

SrcsetSpec == SrcsetInit /\ [][SrcsetAttr]_vars

\* ------------------------------------------------------------ end tags
\* a scanner over a document with end tags: up to MaxElement tokens of the
\* elements style, iframe and a
MaxElement == 3
ElementTags == {"style", "iframe", "a"}

\* case html.StartTagToken, for a start tag whose attribute is not scanned
ElementStartTag ==
    /\ scanErr = "none" /\ ntok < MaxElement
    /\ \E t \in StartTags(ElementTags, {"alt"}) :
        /\ tag' = t.tag
        /\ LexerNext(t, parseStartTag(lookup, reqURL, t))

\* html.EndTagToken, the end tag of the element opened last, has no case in
\* the switch of parseHTML: the token is skipped and tag keeps the name of
\* the last start tag
EndTagToken ==
    /\ scanErr = "none" /\ ntok < MaxElement
    /\ lexTok.kind \in {"start", "text"}
    /\ lexTok' = [kind |-> "end", tag |-> tag]
    /\ ntok' = ntok + 1
    /\ UNCHANGED <<extVars, mainVars, lookup, reqURL, tag, stream, uris,
                   scanErr>>

\* case html.TextToken; the lexer gives text that holds tags only as the raw
\* content that follows the start tag of a style or iframe element
ElementText ==
    /\ scanErr = "none" /\ ntok < MaxElement
    /\ \E t \in TextTokens :
        /\ t.lang = "html" =>
              lexTok.kind = "start" /\ tag \in {"style", "iframe"}
        /\ LexerNext(t, parseText(lookup, reqURL, tag, t))
        /\ UNCHANGED tag

ElementNext ==
    \/ ElementStartTag
    \/ EndTagToken
    \/ ElementText
    \/ ErrorTokenEOF

ElementSpec == ScanInit /\ [][ElementNext]_vars

\* ------------------------------------------------------------ behaviours
Next ==
    \/ Request
    \/ ResponseWriterFunc
    \/ ResponseWriterP
    \/ ResponseWriterPiped
    \/ ResponseWriterLegacy
    \/ Write
    \/ WriteReturn
    \/ Close
    \/ CloseReturn
    \/ PipeRead
    \/ TeeWrite
    \/ PushLoop
    \/ ParseReturn
    \/ DrainEOF
    \/ \E t \in Tasks : ScanToken(t)
    \/ \E t \in Tasks : SinkPush(t)
    \/ \E t \in Tasks : ScanEOF(t)
    \/ \E t \in Tasks : Open(t)
    \/ \E t \in Tasks : TaskDone(t)

Spec == Init /\ [][Next]_vars

\* the goroutines are scheduled and a blocked call returns once it can; the
\* server and the wrapped handler (Request, Write, Close) owe nothing
Fairness ==
    /\ WF_vars(ResponseWriterFunc)
    /\ WF_vars(ResponseWriterP)
    /\ WF_vars(ResponseWriterPiped)
    /\ WF_vars(ResponseWriterLegacy)
    /\ WF_vars(WriteReturn)
    /\ WF_vars(CloseReturn)
    /\ WF_vars(PipeRead)
    /\ WF_vars(TeeWrite)
    /\ WF_vars(PushLoop)
    /\ WF_vars(ParseReturn)
    /\ WF_vars(DrainEOF)
    /\ WF_vars(\E t \in Tasks : ScanToken(t))
    /\ WF_vars(\E t \in Tasks : SinkPush(t))
    /\ WF_vars(\E t \in Tasks : ScanEOF(t))
    /\ WF_vars(\E t \in Tasks : Open(t))
    /\ WF_vars(\E t \in Tasks : TaskDone(t))

FairSpec == Init /\ [][Next]_vars /\ Fairness

\* ------------------------------------------------------------ claims
\* Close of a pipeline has returned
Closed == wmode = "pipe" /\ closeRes # "none"

AllTasksDone == \A t \in Tasks : tasks[t].pc = "done"

RECURSIVE IsAncestor(_, _)
IsAncestor(a, t) ==
    IF t <= 1 THEN FALSE
    ELSE tasks[t].parent = a \/ IsAncestor(a, tasks[t].parent)

RECURSIVE Count(_, _)
Count(s, u) ==
    IF s = <<>> THEN 0
    ELSE (IF Head(s) = u THEN 1 ELSE 0) + Count(Tail(s), u)

\* what the scan of the root document alone ends with once all of it is read
OwnResult(doc) ==
    IF \E i \in 1..Len(doc) : doc[i] = "bad" THEN "ErrURL" ELSE "nil"

\* C1: at the step where Close of a pipeline returns, the root scan task and
\* every scan task spawned from it, directly or not, have finished.
C1_CloseAfterAllTasks ==
    [][(wmode = "pipe" /\ closeRes = "none" /\ closeRes' # "none")
        => AllTasksDone /\ gpc = "finished"]_vars

\* a Close returned on a pipeline whose scan tree had children and grandchildren
C1_Witness == Closed /\ Len(tasks) >= 3

\* C2: a Parse that has returned has no descendant still running: with the
\* per-parser barrier every task, with the single barrier of ParseAll the root.
C2_ParseAfterDescendants ==
    \A t \in Tasks :
        (tasks[t].pc = "done" /\ (t = 1 \/ variant # "piped"))
            => \A d \in Tasks : IsAncestor(t, d) => tasks[d].pc = "done"

\* the root Parse returned after a grandchild task, one of them having failed
C2_Witness ==
    /\ recursive
    /\ Len(tasks) >= 3
    /\ tasks[1].pc = "done"
    /\ \E d \in Tasks : d > 1 /\ tasks[d].err # "nil"
    /\ \E d \in Tasks : d > 1 /\ tasks[d].err = "nil"

\* C3: when Close of a pipeline has returned, the downstream writer holds
\* exactly the tokens passed to Write, in order, whatever the scan ended with.
C3_DownstreamReceivesAll == Closed => down = written

\* Close returned after two Writes whose scan failed on the first token
C3_Witness ==
    /\ Closed
    /\ Len(written) >= 3
    /\ tasks[1].err # "nil"
    /\ written[1] = "bad"

\* C4: a Write that is blocked in the pipe eventually returns, also when the
\* root scan has stopped with an error.
C4_WriteReturns == (hpc = "writing") ~> (hpc = "serve")

\* a Write is blocked while the pipeline drains after a scan error
C4_Witness == hpc = "writing" /\ gpc = "drain" /\ pending # <<>>

\* C5: Close of a pipeline returns the error the root scan ended with (nil
\* at a clean end of stream), and no Write returns an error; stated for the
\* generations the claim cites (func, P, legacy).
C5_CloseReportsRootScan ==
    (Closed /\ variant # "piped")
        => closeRes = tasks[1].err /\ writeErrs \subseteq {"nil"}

\* C6: with recursion, the root scan ends with what its own document gives
\* and Close returns accordingly, whatever happened in the branches; the URI
\* of every branch was accepted and pushed.
C6_BranchFailureIsLocal ==
    (Closed /\ recursive)
        => /\ tasks[1].err = OwnResult(written)
           /\ variant = "func" => closeRes = OwnResult(written)
           /\ (variant = "piped" /\ OwnResult(written) # "nil")
                 => closeRes = OwnResult(written)
           /\ \A t \in Tasks : t > 1 =>
                 accepted[tasks[t].uri] > 0 /\ pushed[tasks[t].uri] > 0

\* Close returned nil although a branch failed
C6_Witness ==
    /\ Closed
    /\ recursive
    /\ closeRes = "nil"
    /\ \E t \in Tasks : t > 1 /\ tasks[t].err # "nil"

\* ResponseWriter has returned for the request being handled
Returned == hpc \notin {"idle", "setup"}

NoPushes ==
    /\ replayed = <<>>
    /\ tasks = <<>>
    /\ \A u \in AllURIs : pushed[u] = 0

\* C7: for a request that carries X-Pushed: 1 ResponseWriter returns
\* ErrRecursivePush, and nothing is pushed, scanned or replayed.
C7_MarkedRequestRejected ==
    (Returned /\ req.xpushed = "1")
        => setupErr = ErrRecursivePush /\ NoPushes

\* C8: the options of every push call, and so every request a push creates,
\* carry X-Pushed: 1; a request created by a push is rejected with
\* ErrRecursivePush and causes no push.
C8_PushesCarryMarker ==
    /\ pushHdrs \subseteq {"1"}
    /\ \A p \in promised : p.xpushed = "1"
    /\ (Returned /\ req.origin = "push")
          => setupErr = ErrRecursivePush /\ NoPushes

\* the request a push created has been handled, for a URI of a child scan
C8_Witness ==
    /\ hpc = "done"
    /\ req.origin = "push"
    /\ req.uri = "/b.svg"

\* ResponseWriter returned on a cache hit: the entry of a miss is created by
\* the scan only
CacheHit ==
    /\ Returned
    /\ useCache
    /\ req.xpushed # "1"
    /\ req.hasPusher
    /\ cache[req.uri] # NoEntry
    /\ tasks = <<>>

\* C9: on a cache hit the recorded list is pushed, each entry once and in
\* order, and no pipeline is built.
C9_HitReplaysRecordedList ==
    CacheHit => replayed = cache[req.uri] /\ wmode \notin {"pipe", "lazy"}

\* C10: after a miss, once Close of the pipeline has returned, the entry of
\* the request holds one element per sink call of the scan tree.
C10_EntryHoldsAccepted ==
    (Closed /\ useCache)
        => /\ \A u \in AllURIs :
                Count(CacheGet(cache, req.uri).resources, u) = accepted[u]
           /\ CacheGet(cache, req.uri).ok
                 <=> \E u \in AllURIs : accepted[u] > 0

\* the entry holds a URI of the root document and one of a child document
C10_Witness ==
    /\ Closed
    /\ useCache
    /\ CacheGet(cache, req.uri).resources = <<"/a.css", "/b.svg">>

\* C13: every URI the sink got starts with the base prefix of the parser: its
\* path is absolute and, for the prefix /dir/, lies in that directory.
C13_AcceptedInScope ==
    \A i \in 1..Len(uris) :
        /\ Len(uris[i]) >= 1
        /\ lookup.baseURI = "/dir/" => Len(uris[i]) >= 2 /\ uris[i][1] = "dir"

\* under the prefix /dir/ one reference of two was passed on, the other one
\* resolves outside the prefix
C13_Witness ==
    /\ lookup.baseURI = "/dir/"
    /\ reqURL.path = <<"dir", "index.html">>
    /\ stream = <<"/header.jpg", "header.jpg">>
    /\ uris = << <<"dir", "header.jpg">> >>

\* the rows of the resolution table: lookup, document, raw reference and the
\* sink calls expected
Row(host, baseURI, doc, raw, expected) ==
    [lookup |-> [host |-> host, baseURI |-> baseURI], doc |-> doc,
     raw |-> raw, uris |-> expected]

ResolutionTable ==
    {Row("example.com", "/", <<"index.html">>, "http://example.com/header.jpg",
         << <<"header.jpg">> >>),
     Row("example.com", "/", <<"index.html">>, "//example.com/header.jpg",
         << <<"header.jpg">> >>),
     Row("example.com", "/", <<"index.html">>, "/header.jpg",
         << <<"header.jpg">> >>),
     Row("example.com", "/", <<"index.html">>, "header.jpg",
         << <<"header.jpg">> >>),
     Row("example.com", "", <<"index.html">>, "header.jpg",
         << <<"header.jpg">> >>),
     Row("www.example.com", "/", <<"index.html">>,
         "http://example.com/header.jpg", <<>>),
     Row("example.com", "/dir/", <<"index.html">>,
         "http://example.com/header.jpg", <<>>),
     Row("example.com", "/", <<"dir", "index.html">>,
         "http://example.com/header.jpg", << <<"header.jpg">> >>),
     Row("example.com", "/", <<"dir", "index.html">>, "header.jpg",
         << <<"dir", "header.jpg">> >>),
     Row("", "/", <<"index.html">>, "header.jpg", << <<"header.jpg">> >>),
     Row("", "/dir/", <<"index.html">>, "header.jpg", <<>>),
     Row("", "/dir/", <<"dir", "index.html">>, "header.jpg",
         << <<"dir", "header.jpg">> >>),
     Row("", "", <<"index.html">>, "header.jpg", << <<"header.jpg">> >>)}

\* C14: a first parseURL call gives the sink calls of its row of the table
\* and no error; a reference to another host gives no sink call and no error.
C14_ResolutionTable ==
    (ntok = 1 /\ lexTok.kind = "ref")
        => /\ \A row \in ResolutionTable :
                (lookup = row.lookup /\ reqURL.path = row.doc
                    /\ lexTok.raw = row.raw)
                => uris = row.uris /\ scanErr = "nil"
           /\ lexTok.raw = "http://other.com/header.jpg"
                => uris = <<>> /\ scanErr = "nil"

\* header.jpg under /dir/index.html was resolved to /dir/header.jpg
C14_Witness ==
    /\ ntok = 1
    /\ lookup = [host |-> "example.com", baseURI |-> "/"]
    /\ reqURL.path = <<"dir", "index.html">>
    /\ lexTok = [kind |-> "ref", raw |-> "header.jpg"]
    /\ uris = << <<"dir", "header.jpg">> >>


\* the local references of a document
LocalRefs(doc) == {doc[i] : i \in 1..Len(doc)} \cap ResURIs

\* the references reachable from a set of URIs through the resources the
\* opener supplies
RECURSIVE Reachable(_)
Reachable(S) ==
    LET T == S \cup UNION {LocalRefs(Content(u)) : u \in S}
    IN  IF T = S THEN S ELSE Reachable(T)

\* C11: with a recursive opener that supplied every resource it was asked
\* for, once Parse of the root document has returned without error the set
\* of accepted URIs is the set of the local references of the root document
\* and of those reachable through the opened resources, in every
\* interleaving of the branches.
C11_AcceptedIsReachable ==
    (/\ wmode = "pipe" /\ recursive
     /\ tasks[1].pc = "done" /\ tasks[1].err = "nil"
     /\ \A t \in Tasks : tasks[t].err \notin {"ErrOpen", ErrNoParser})
    => {u \in AllURIs : accepted[u] > 0} = Reachable(LocalRefs(written))

\* the root referenced a style sheet that referenced an image; both opened
C11_Witness ==
    /\ wmode = "pipe" /\ recursive
    /\ tasks[1].pc = "done" /\ tasks[1].err = "nil"
    /\ Len(tasks) = 3 /\ tasks[3].parent = 2 /\ tasks[3].err = "nil"
    /\ accepted["/a.css"] = 1 /\ accepted["/b.svg"] = 1

\* a push of this request returned an error: the URI was pushed and the
\* client holds no promise for it
FailedPush ==
    \E u \in AllURIs : pushed[u] > 0 /\ \A p \in promised : p.uri # u

\* C16: a push that returns an error does not end the scan, and when the
\* scan of the root document itself does not fail, Close returns the push
\* error.
C16_DeliveryErrorRetained ==
    /\ FailedPush => \A t \in Tasks : tasks[t].err # "ErrPush"
    /\ (Closed /\ FailedPush /\ tasks[1].err = "nil") => closeRes = "ErrPush"

\* the mimetype that selects the scanner of the request: the Content-Type
\* when the generation reads it, else the one of the extension
RequestMimetype ==
    CASE variant = "func" ->
            IF req.ctype # "" THEN ParseMediaType(req.ctype).mimetype
            ELSE ExtToMimetype(PathExt(req.uri))
      [] variant = "P" -> FirstWriteMimetype
      [] variant = "piped" -> ExtToMimetype(PathExt(req.uri))
      [] OTHER -> IF PathExt(req.uri) = "" THEN "text/html"
                  ELSE TypeByExtension(PathExt(req.uri))

\* C17: for an unmarked request on a Pusher whose mimetype has no scanner,
\* ResponseWriter returns ErrNoParser, no scan task is started, nothing is
\* pushed, and what the handler wrote is what the client received.
C17_NoParserAtSetup ==
    (/\ Returned /\ req.xpushed # "1" /\ req.hasPusher
     /\ ~SupportedMimetype(RequestMimetype))
    => /\ setupErr = ErrNoParser
       /\ NoPushes
       /\ hpc = "serve" => down = written

\* C18: what ResponseWriter returns at setup is nil, ErrNoPusher,
\* ErrRecursivePush or ErrNoParser and nothing else; a push error in
\* particular is not returned by ResponseWriter.
C18_SetupErrors ==
    Returned => setupErr \in {"nil", ErrNoPusher, ErrRecursivePush, ErrNoParser}

\* C19: whatever ResponseWriter reported, Middleware serves the request with
\* the wrapped handler: it never answers with an error response of its own
\* in place of the handler's.
C19_HandlerAlwaysServed ==
    Returned => wmode # "error" /\ down # <<"E500">>

\* ---- the scanner's claims (ScanSpec)

\* the accepted URIs of a sequence of raw references, each resolved on its
\* own, in order
RECURSIVE AllTargets(_)
AllTargets(raws) ==
    IF raws = <<>> THEN <<>>
    ELSE parseURL(lookup, reqURL, Head(raws)).uris \o AllTargets(Tail(raws))

\* a is b with some elements left out, the order kept
RECURSIVE IsSubseq(_, _)
IsSubseq(a, b) ==
    IF a = <<>> THEN TRUE
    ELSE IF b = <<>> THEN FALSE
    ELSE IF Head(a) = Head(b) THEN IsSubseq(Tail(a), Tail(b))
    ELSE IsSubseq(a, Tail(b))

\* C12: within one scan the sink is called in document order: the sequence
\* of URIs the sink received is, in this order, part of the sequence of the
\* targets of the references of the byte stream, those of inline CSS, <style>,
\* <iframe> and SVG content included.
C12_SinkInDocumentOrder == IsSubseq(uris, AllTargets(stream))

\* two different URIs accepted from one nested fragment
C12_Witness ==
    /\ lexTok.kind \in {"text", "svg"}
    /\ Len(stream) = Len(lexTok.val) /\ Len(uris) = 2 /\ uris[1] # uris[2]

\* the constructs of a document the scanner looks into: src, srcset, poster
\* and data on any element, href on link, url(...) of any style attribute
SourceConstruct(tg, attr) ==
    \/ attr \in {"src", "srcset", "poster", "data", "style"}
    \/ attr = "href" /\ tg = "link"

SvgConstruct(tg, attr) ==
    \/ attr = "style"
    \/ tg \in {"image", "script", "feImage", "color-profile", "use"}
       /\ attr \in {"href", "xlink:href"}

\* the raw references of the constructs among the start tags of a fragment
RECURSIVE FragmentRefs(_, _)
FragmentRefs(elems, svg) ==
    IF elems = <<>> THEN <<>>
    ELSE (IF (svg /\ SvgConstruct(Head(elems).tag, Head(elems).attr))
             \/ (~svg /\ SourceConstruct(Head(elems).tag, Head(elems).attr))
          THEN Head(elems).val ELSE <<>>) \o FragmentRefs(Tail(elems), svg)

\* the raw references of the constructs of token t read under start tag tg
ConstructRefs(t, tg) ==
    CASE t.kind = "start" -> FragmentRefs(<<t>>, FALSE)
      [] t.kind = "svg" -> FragmentRefs(t.val, TRUE)
      [] t.kind = "text" ->
            IF tg = "style" /\ t.lang = "css" THEN t.val
            ELSE IF tg = "iframe" /\ t.lang = "html"
                 THEN FragmentRefs(t.val, FALSE) ELSE <<>>
      [] OTHER -> <<>>

\* the references of a sequence before the first one url.Parse rejects
RECURSIVE WellFormedPrefix(_)
WellFormedPrefix(raws) ==
    IF raws = <<>> \/ UrlParse(Head(raws)).err THEN <<>>
    ELSE <<Head(raws)>> \o WellFormedPrefix(Tail(raws))

Malformed(raws) == \E i \in 1..Len(raws) : UrlParse(raws[i]).err

\* C15: a reference that fails to parse as a URL aborts the scan: the sink
\* receives the targets of the references before it and nothing after it,
\* the scan returns the error, and a scan that returned it calls the sink
\* no more.
C15_MalformedAborts ==
    [][/\ Malformed(ConstructRefs(lexTok', tag))
          => /\ scanErr' = "ErrURL"
             /\ uris' = uris \o AllTargets(WellFormedPrefix(ConstructRefs(lexTok', tag)))
       /\ scanErr = "ErrURL" => uris' = uris /\ scanErr' = "ErrURL"]_vars

\* a srcset list whose second candidate is malformed: the first was accepted
C15_Witness ==
    /\ scanErr = "ErrURL"
    /\ lexTok.kind = "start" /\ lexTok.attr = "srcset"
    /\ Len(lexTok.val) = 2 /\ lexTok.val[2] = "%zz"
    /\ ntok = 2 /\ Len(uris) = 2

\* the tag and attribute combinations of the claim
ListedConstruct(tg, attr) ==
    \/ attr = "style"
    \/ attr = "href" /\ tg = "link"
    \/ attr = "src" /\ tg \in {"script", "img", "source", "audio", "video",
                              "track", "embed", "input", "iframe"}
    \/ attr = "srcset" /\ tg = "img"
    \/ attr = "data" /\ tg = "object"

UnquotedContent(data) ==
    LET c == SubSeq(data, 5, Len(data) - 1) IN
    IF Len(c) >= 2 /\ SubSeq(c, 1, 1) \in {"\"", "'"}
       /\ SubSeq(c, Len(c), Len(c)) = SubSeq(c, 1, 1)
    THEN SubSeq(c, 2, Len(c) - 1)
    ELSE c

\* the references of the values of a declaration: the unquoted content of
\* every URL token that has content and is no data: URL
RECURSIVE ReferencesOf(_)
ReferencesOf(vals) ==
    IF vals = <<>> THEN <<>>
    ELSE (IF /\ Head(vals).type = "URL"
             /\ UnquotedContent(Head(vals).data) # ""
             /\ ~HasDataPrefix(UnquotedContent(Head(vals).data))
          THEN <<UnquotedContent(Head(vals).data)>> ELSE <<>>)
         \o ReferencesOf(Tail(vals))

\* C21: the resolver is never called with the content of a url(...) value
\* that starts with data:, and it is called, in order, with the content of
\* every other url(...) value of a declaration, the quotes around it taken
\* off (up to the first content it rejects).
C21_DataURLsSkipped ==
    [][lexTok'.kind = "decl"
       => stream' = stream \o CalledWith(ReferencesOf(lexTok'.vals))]_vars

\* ---- the collecting sinks' claims (ListSpec)

\* the second call of List has returned
Rescanned == nreq = 2 /\ tasks # <<>> /\ tasks[1].pc = "done"

\* C22 as stated: two scans of the same document with the same parser give
\* the same URIs in the same order.
C22_SameOrder == Rescanned => Collected = firstURIs

\* C22 amended: two scans of the same document give the same URIs, each as
\* often, and a scan without recursive opener gives them in the same order.
C22_SameURIs ==
    Rescanned =>
        /\ \A u \in AllURIs : Count(Collected, u) = Count(firstURIs, u)
        /\ ~recursive => Collected = firstURIs

\* a document with two references was scanned twice
C22_Witness ==
    /\ Rescanned /\ ~recursive /\ ~useCache
    /\ firstURIs = <<"/a.css", "/logo.png">>
    /\ uris = <<"/a.css", "/logo.png">>

\* C25: the sinks lose no URI when several tasks of one scan call them:
\* once Parse has returned, the list of the ListHandler, or the cache entry
\* written by the cache-writing sink, holds every URI as often as the sink
\* was called for it.
C25_OneElementPerSinkCall ==
    (tasks # <<>> /\ tasks[1].pc = "done")
    => \A u \in AllURIs : Count(Collected, u) = accepted[u]

\* a recursive scan whose root, child and grandchild called the
\* cache-writing sink
C25_Witness ==
    /\ recursive /\ useCache
    /\ tasks # <<>> /\ tasks[1].pc = "done"
    /\ Len(tasks) = 4
    /\ Len(cache[ListURI]) = 3

\* the resources passed to Add(k, .) by the calls of log since the last
\* Del(k), in call order
RECURSIVE AddedSinceDel(_, _)
AddedSinceDel(log, k) ==
    IF log = <<>> THEN <<>>
    ELSE LET last == log[Len(log)]
             before == AddedSinceDel(SubSeq(log, 1, Len(log) - 1), k)
         IN  IF last.key # k \/ last.op = "Get" THEN before
             ELSE IF last.op = "Del" THEN <<>>
             ELSE Append(before, last.resource)

Expected(log, k) ==
    [resources |-> AddedSinceDel(log, k), ok |-> AddedSinceDel(log, k) # <<>>]

\* C24: after any sequence of calls on a DefaultCache, Get(k) returns, in
\* call order, exactly the resources passed to Add(k, .) since the last
\* Del(k) and reports found iff there is at least one; this holds for every
\* key whatever was added to or deleted from the other keys.
C24_GetReturnsAddsSinceDel ==
    /\ \A i \in 1..Len(cacheLog) :
          cacheLog[i].op = "Get" =>
              cacheLog[i].got = Expected(SubSeq(cacheLog, 1, i - 1), cacheLog[i].key)
    /\ \A k \in CacheKeys : CacheGet(cache, k) = Expected(cacheLog, k)

\* two Adds on one key, a Del on the other key, then a Get that returns both
\* resources
C24_Witness ==
    /\ Len(cacheLog) = 4
    /\ cacheLog[1].op = "Add" /\ cacheLog[2].op = "Add"
    /\ cacheLog[1].key = cacheLog[2].key
    /\ cacheLog[3].op = "Del" /\ cacheLog[3].key # cacheLog[1].key
    /\ cacheLog[4].op = "Get" /\ cacheLog[4].key = cacheLog[1].key
    /\ Len(cacheLog[4].got.resources) = 2

Range(s) == {s[i] : i \in 1..Len(s)}

\* C23: cache entries are keyed by host and path: a request never replays
\* URIs recorded for a request with the same path and another host.
C23_KeyedByHostAndPath ==
    \A i \in 1..Len(conns) :
        conns[i].hit =>
            Range(conns[i].replayed) \subseteq
                Range(Accepts(conns[i].host, conns[i].uri))

\* all requests in flight have the same host and path
SameRequest ==
    \A i, j \in 1..Len(conns) :
        conns[i].host = conns[j].host /\ conns[i].uri = conns[j].uri

\* C30: when requests for the same key are handled at the same time, a
\* cache hit replays the whole list a scan for that key accepts, never a
\* part of it, and once all of them have returned the entry of the key is
\* the accepted list of a single scan.
C30_NoPartialReplay ==
    SameRequest =>
        /\ \A i \in 1..Len(conns) :
              conns[i].hit =>
                  conns[i].replayed = Accepts(conns[i].host, conns[i].uri)
        /\ \A i \in 1..Len(conns) :
              Finished = 1..Len(conns) =>
                  CacheGet(cache, CacheKey(conns[i])).resources
                      = Accepts(conns[i].host, conns[i].uri)

\* C29: once a request for a key was a cache miss and its scan has run to
\* completion, a later request for the same key is a cache hit, whatever
\* the document, also when its scan accepted no URI.
C29_HitAfterCompleteScan ==
    \A j \in 1..Len(conns) :
        \A i \in conns[j].finished :
            (/\ conns[i].host = conns[j].host
             /\ conns[i].uri = conns[j].uri
             /\ ~conns[i].hit
             /\ conns[j].pc # "get")
            => conns[j].hit

\* C26: the scanner of a response is selected by the media type of its
\* Content-Type header when the header is set and by the extension table
\* only when it is not; a mimetype outside the table, or an extension
\* outside it, yields ErrNoParser.
C26_MimetypeSelection ==
    (mime.selected # "none" /\ ~ParseMediaType(mime.response).err)
    => mime.selected =
          Selected(IF mime.response # ""
                   THEN ParseMediaType(mime.response).mimetype
                   ELSE ExtToMimetype(PathExt(mime.uri)))

\* the check of ResponseWriter that decides the request first, in the order
\* marker, push capability, mimetype gate; "nil" when none rejects it
FirstCheck ==
    CASE req.xpushed = "1" -> ErrRecursivePush
      [] ~req.hasPusher -> ErrNoPusher
      [] ~SupportedMimetype(RequestMimetype) -> ErrNoParser
      [] OTHER -> "nil"

\* C28: ResponseWriter applies its checks in the order marker, push
\* capability, mimetype gate, cache: the first check that rejects the
\* request is what ResponseWriter returns, and the request then causes no
\* change of the cache, no replay from it and no scan.
C28_ChecksInOrder ==
    [][(hpc = "setup" /\ FirstCheck # "nil")
       => /\ setupErr' = FirstCheck
          /\ cache' = cache
          /\ replayed' = <<>>
          /\ tasks' = <<>>]_vars

\* the document has no reference the scanner rejects
WellFormedDoc == \A i \in 1..Len(listDoc) : listDoc[i] # "bad"

\* C27: the scan behind the reader of Reader is driven by the consumer's
\* reads; a consumer that reads a well-formed document to the end is told
\* end-of-stream without error, and only once it has received the whole
\* document, the scan and all its child scans have finished and every
\* reference of the document has been passed to the handler.
C27_ReaderEndOfStream ==
    /\ [](tasks # <<>> /\ tasks[1].pc \in {"lock", "sink"}
             => \E n \in 1..Len(rd.read) :
                   SubSeq(rd.read, n, Len(rd.read)) = tasks[1].buf)
    /\ []((rd.res # "none" /\ WellFormedDoc) => rd.res = "EOF")
    /\ [](rd.res = "EOF"
             => /\ rd.read = listDoc
                /\ AllTasksDone
                /\ \A u \in AllURIs : Count(uris, u) >= Count(listDoc, u))
    /\ (WellFormedDoc => <>(rd.res = "EOF"))

\* end-of-stream after a recursive scan whose child scan failed
C27_Witness ==
    /\ rd.res = "EOF"
    /\ recursive
    /\ Len(listDoc) = 2
    /\ \E t \in Tasks : tasks[t].parent # 0 /\ tasks[t].err = "ErrURL"

\* C31: when the scan started on a cache miss ends with an error, the cache
\* keeps no entry for the key of the request, so that no later request for
\* the key replays the URIs accepted before the failure.
C31_NoEntryAfterFailedScan ==
    (Closed /\ useCache /\ closeRes # "nil") => ~CacheGet(cache, req.uri).ok

\* C32: a recursive open and scan is asynchronous to its parent: the step in
\* which the sink call for an accepted reference returns leaves the parent
\* scanning the rest of its input, with the child not yet opened when the
\* parser is recursive, and a scanning task can always take its next token
\* or its end of input, whatever its children are doing.
C32_ChildAsynchronous ==
    /\ [][\A t \in Tasks :
             (tasks[t].pc = "sink" /\ tasks'[t].pc # "sink")
             => /\ tasks'[t].pc = "scan"
                /\ tasks'[t].buf = Tail(tasks[t].buf)
                /\ recursive => /\ Len(tasks') = Len(tasks) + 1
                                /\ tasks'[Len(tasks')].pc = "open"
                                /\ tasks'[Len(tasks')].parent = t]_vars
    /\ [](\A t \in Tasks :
             tasks[t].pc = "scan" => ENABLED (ListToken(t) \/ ListEOF(t)))

\* the root has reached the end of its input while neither of its two
\* children has been opened
C32_Witness ==
    /\ recursive
    /\ Len(tasks) = 3
    /\ tasks[1].pc = "wait"
    /\ tasks[2].pc = "open" /\ tasks[3].pc = "open"

\* the references of a document the scanner accepts: those before the first
\* malformed one
RECURSIVE AcceptedOf(_)
AcceptedOf(doc) ==
    IF doc = <<>> \/ Head(doc) = "bad" THEN <<>>
    ELSE IF Head(doc) = "x" THEN AcceptedOf(Tail(doc))
    ELSE <<Head(doc)>> \o AcceptedOf(Tail(doc))

\* the document task t scans
DocumentOf(t) ==
    IF t = 1 THEN listDoc
    ELSE IF SupportedMimetype(ExtToMimetype(PathExt(tasks[t].uri)))
    THEN Content(tasks[t].uri)
    ELSE <<>>

RECURSIVE SumOver(_, _)
SumOver(S, u) ==
    IF S = {} THEN 0
    ELSE LET t == CHOOSE x \in S : TRUE
         IN  Count(AcceptedOf(DocumentOf(t)), u) + SumOver(S \ {t}, u)

\* C33: a failing scan does not cancel the child scans it has spawned: the
\* failure of a task changes no other task, and once the root's Parse has
\* returned every spawned task has run to its own end and the sink holds
\* every URI each of them accepts, whether or not its parent failed.
C33_ChildrenSurviveParentFailure ==
    /\ [][nreq' = nreq
          => \A t \in Tasks :
                (tasks[t].err = "nil" /\ tasks'[t].err # "nil")
                => \A c \in Tasks \ {t} : tasks'[c] = tasks[c]]_vars
    /\ []((tasks # <<>> /\ tasks[1].pc = "done")
             => /\ AllTasksDone
                /\ \A u \in AllURIs : Count(Collected, u) = SumOver(Tasks, u))

\* the root scan has failed and the child it spawned before is inside the
\* sink with a URI of its own
C33_Witness ==
    /\ recursive
    /\ Len(tasks) >= 2
    /\ tasks[1].err = "ErrURL"
    /\ \E c \in Tasks :
          /\ tasks[c].parent = 1
          /\ tasks[c].pc = "sink"
          /\ Head(tasks[c].buf) = "/b.svg"

Cycle == {"/a.css", "/b.svg"}

\* C34: with a recursive opener and resources that reference each other the
\* recursion does not end: every task of the cycle that has finished its
\* scan has spawned a task for the other resource, some task is always
\* unfinished, the sink is called for the two resources once per task, and
\* the root's Parse never returns.
C34_CycleNeverEnds ==
    tasks # <<>> =>
        /\ tasks[1].pc # "done"
        /\ \E t \in Tasks : tasks[t].pc \in {"open", "scan", "lock", "sink"}
        /\ \A t \in Tasks \ {1} :
              (tasks[t].uri \in Cycle /\ tasks[t].pc \in {"wait", "done"})
              => \E c \in Tasks :
                    /\ tasks[c].parent = t
                    /\ tasks[c].uri \in Cycle \ {tasks[t].uri}
        /\ \A u \in Cycle :
              accepted[u] >= Cardinality({t \in Tasks : tasks[t].uri = u})

\* the sink was called twice for each of the two resources and the root is
\* waiting for its children
C34_Witness ==
    /\ tasks # <<>>
    /\ tasks[1].pc = "wait"
    /\ accepted["/a.css"] >= 2
    /\ accepted["/b.svg"] >= 2
    /\ \A u \in Cycle : Count(Collected, u) >= 2

\* C35: with finite, acyclic resources and fair scheduling of the goroutines,
\* a Close the handler has called on the pipeline eventually returns: the
\* pipe, the scan tree and the sink do not deadlock.
C35_CloseReturns == (hpc = "closing") ~> (hpc = "done" /\ closeRes # "none")

\* Close is waiting while a grandchild of the root document has not been
\* opened yet
C35_Witness ==
    /\ hpc = "closing"
    /\ recursive
    /\ Len(tasks) = 3
    /\ tasks[3].pc = "open"
    /\ tasks[1].pc \in {"scan", "wait"}

\* C36: a scan never passes the path of its own document to the sink: an
\* empty reference or a reference that is only a fragment is not an accepted
\* URI.
C36_NoSelfReference ==
    \A i \in 1..Len(uris) : uris[i] # reqURL.path

\* C37: a recursively opened resource is scanned with the Document Address
\* made of its own accepted URI and the original host: what a parseURL call
\* of a child task passes to the sink is what the resolver gives for the
\* reference under that address, so that a relative reference resolves
\* against the directory of the resource and a reference to another host is
\* rejected.
C37_ChildDocumentAddress ==
    [][(ntok' = ntok + 1 /\ lexTok'.task # 1)
       => uris' = uris \o parseURL(lookup,
                                   [host |-> lookup.host,
                                    path |-> tasks[lexTok'.task].path],
                                   lexTok'.raw).uris]_vars

\* the reference computation of a srcset list: the candidates between the
\* commas, each trimmed, each cut at its first whitespace
RECURSIVE SplitOnCommas(_)
SplitOnCommas(b) ==
    IF \A i \in 1..Len(b) : b[i] # "," THEN <<b>>
    ELSE LET k == CHOOSE i \in 1..Len(b) :
                    b[i] = "," /\ \A j \in 1..(i - 1) : b[j] # ","
         IN  <<SubSeq(b, 1, k - 1)>> \o SplitOnCommas(SubSeq(b, k + 1, Len(b)))

RECURSIVE TrimLeft(_)
TrimLeft(b) ==
    IF b # <<>> /\ IsWhitespace(Head(b)) THEN TrimLeft(Tail(b)) ELSE b

RECURSIVE TrimRight(_)
TrimRight(b) ==
    IF b # <<>> /\ IsWhitespace(b[Len(b)])
    THEN TrimRight(SubSeq(b, 1, Len(b) - 1)) ELSE b

RECURSIVE LeadingToken(_)
LeadingToken(b) ==
    IF b = <<>> \/ IsWhitespace(Head(b)) THEN <<>>
    ELSE <<Head(b)>> \o LeadingToken(Tail(b))

SrcsetReference(b) ==
    LET cands == SplitOnCommas(b) IN
    [k \in 1..Len(cands) |-> LeadingToken(TrimRight(TrimLeft(cands[k])))]

\* C38: the URLs a srcset value gives are those of the reference computation
\* (split on commas, trim each candidate, take its leading
\* whitespace-delimited token), in candidate order.
C38_SrcsetIsReference ==
    lexTok.kind = "srcset" => uris = SrcsetReference(stream)

\* " a x," has been parsed: a candidate with leading whitespace and a
\* descriptor, and an empty candidate after the comma
C38_Witness ==
    /\ lexTok.kind = "srcset"
    /\ stream = <<" ", "a", " ", "x", ",">>
    /\ uris = <<<<"a">>, <<>>>>

\* C39: text is scanned as CSS only as the content of a style element and as
\* nested HTML only as the content of an iframe element: a text token that
\* follows an end tag contributes nothing to the scan.
C39_NoScanAfterEndTag ==
    [][(lexTok.kind = "end" /\ lexTok'.kind = "text")
       => (uris' = uris /\ scanErr' = scanErr)]_vars

\* C40: the reader of Reader yields every byte of the underlying reader in
\* order, also when the scan fails part-way: what the consumer has read is
\* at all times the start of the document, and all of the document once its
\* Read has reported end-of-stream or an error.
C40_ReaderYieldsEveryByte ==
    /\ Len(rd.read) <= Len(listDoc)
    /\ rd.read = SubSeq(listDoc, 1, Len(rd.read))
    /\ rd.res # "none" => rd.read = listDoc

====
